---- MODULE Spec2Model ----
(***************************************************************************)
(* A model of the mls-rs-uniffi-ios session layer: ClientFFI (client.rs),  *)
(* GroupFFI (group.rs), MessageFFI (message.rs) and the storage adapters   *)
(* (config/group_state.rs).  The wrapper delegates to the mls_rs engine;   *)
(* each engine call is modelled at its call site by the engine's           *)
(* documented behaviour (a commit is staged as a pending commit and is     *)
(* applied when its own message is processed, see lib.rs setup_test).      *)
(*                                                                         *)
(* Options are sequences of length 0 or 1.  Leaf indices are 0-based as in *)
(* the code; roster[i + 1] is the member at leaf index i.                  *)
(***************************************************************************)
EXTENDS Integers, Sequences, FiniteSets, TLC

\* ------------------------------------------------------------- bounds
\* calls in a run that starts with no group
MaxOps == 5
\* calls in a run that starts from the two-member group of setup_test
MaxMore == 3
\* key packages in one add_members or propose_add_members call
MaxAdd == 1
\* calls in a run in which two threads share one client's sessions
MaxConc == 3
\* key packages in one call of a run that adds several members at once
MaxBatch == 2
\* calls in such a run
MaxBatchOps == 2

\* ------------------------------------------------------------- universe
Clients == {"A", "B"}
\* in a run one client creates the groups and the other joins them
Creators == {"A"}
Joiners == {"B"}
\* group id 1 stands for an id the engine generates, 2 for a caller-supplied id
GeneratedGid == 1
SuppliedGid == 2
Gids == {GeneratedGid, SuppliedGid}
Plaintexts == {"hello"}
\* authenticated data a caller passes along with a plaintext: none, or one byte
AuthData == {<<>>, <<"ad">>}
\* encoded external PSK ids a caller passes: a well-formed one and bytes that
\* do not decode
PskIdInputs == {"psk", "malformed"}
Threads == {"t1", "t2"}
None == <<>>
Some(x) == <<x>>

VARIABLES
    grp,       \* grp[c][g]: Option of the engine's Group behind a GroupFFI handle
    poisoned,  \* poisoned[c][g]: the handle's Mutex is poisoned
    kpStore,   \* kpStore[c]: key packages held by client c's key-package storage
    net,       \* every message produced so far (the transport)
    last,      \* the last call: operation, caller, result and the state before it
    ops,       \* the number of calls the run may still make
    thr,       \* thr[t]: the call thread t is making and how far it has got
    holder,    \* holder[k]: Option of the thread holding session lock k
    sholder,   \* Option of the thread holding the storage backend's lock
    storage,   \* storage[c][g]: Option of the state of group g last written to c's storage
    seqGrp,    \* seqGrp[g]: the group had the calls on it run one after another
    groups,    \* groups[g]: Option of what the test storage holds for group g
    written,   \* groups as the last write that returned left it
    writes     \* writes[c]: write_to_storage calls made by c's sessions, write calls
               \* c's group state storage has received, write_to_storage calls that
               \* returned Ok

mock == <<groups, written>>
conc == <<thr, holder, sholder, storage, seqGrp, mock, writes>>
vars == <<grp, poisoned, kpStore, net, last, ops, conc>>

\* ------------------------------------------------------------- data
\* SigningIdentity::new(basic_credential, public_key), client.rs:42-44
SigningIdentity(c, v) == [name |-> c, ver |-> v]

\* the cipher suite of every client built by ClientFFI::new (client.rs:38, 58)
GroupSuite == "x25519"

\* the n-th key package of client c (client.rs:75-84)
KeyPackage(c, n) == [owner |-> SigningIdentity(c, 0), suite |-> GroupSuite, n |-> n]

MemberSender(i) == [kind |-> "member", index |-> i]
NewMemberSender == [kind |-> "new_member", index |-> 0]

NoCall == [op |-> "none", c |-> "A", g |-> 0, res |-> "ok", pre |-> None,
           arg |-> None, val |-> None]

Has(c, g) == grp[c][g] # None
G(c, g) == grp[c][g][1]

\* ------------------------------------------------------------- roster queries
\* Group::member_at_index as used by index_to_identity and member_at_index
member_at_index(s, i) ==
    IF i >= 0 /\ i < Len(s.roster) THEN Some([index |-> i, signing_identity |-> s.roster[i + 1]])
    ELSE None

\* a variant that reports the member at the first leaf whoever the sender is
index_to_identity_first(s, i) ==
    IF s.roster = <<>> THEN None ELSE Some(s.roster[1])

\* group.rs:93-101: Ok(identity) or Err(InvalidNodeIndex)
index_to_identity(s, i) ==
    LET m == member_at_index(s, i) IN
    IF m = None THEN None ELSE Some(m[1].signing_identity)

\* group.rs:347-367
members(s) == [i \in 1..Len(s.roster) |-> [index |-> i - 1, signing_identity |-> s.roster[i]]]
group_id(s) == s.gid
current_epoch(s) == s.epoch
current_member_index(s) == s.index

\* ------------------------------------------------------------- messages
\* an MlsMessage: what MessageFFI wraps (message.rs:15-18); group_id, epoch and
\* the content kind are the envelope fields of message.rs:34-52, tx is the
\* confirmed transcript the message is authenticated against
Msg(kind, gid, epoch, tx, sender, body) ==
    [kind |-> kind, gid |-> gid, epoch |-> epoch, tx |-> tx, sender |-> sender, body |-> body]

KeyPackageMsg(kp) == Msg("key_package", 0, 0, <<>>, NewMemberSender, kp)

AddProposal(sender, kp) ==
    [ptype |-> "add", sender |-> sender, kp |-> Some(kp), ident |-> None, psk |-> None]
UpdateProposal(sender, id) ==
    [ptype |-> "update", sender |-> sender, kp |-> None, ident |-> Some(id), psk |-> None]
PskProposal(sender, id) ==
    [ptype |-> "psk", sender |-> sender, kp |-> None, ident |-> None, psk |-> Some(id)]

\* ExternalPskId::mls_decode (group.rs:204): the id inside a well-formed
\* encoding, None for bytes that are not one
ExternalPskId_mls_decode(bytes) ==
    IF bytes = "malformed" THEN None ELSE Some(bytes)

\* a key package published by a party outside the modelled clients, for a
\* cipher suite CipherSuiteFFI does not list
ForeignKeyPackage == [owner |-> SigningIdentity("X", 0), suite |-> "other", n |-> 0]

\* ------------------------------------------------------------- engine: group state
\* a variant in which a new group starts one epoch late
NewGroup_epoch1(c, g) ==
    [gid |-> g, epoch |-> 1, index |-> 0, roster |-> <<SigningIdentity(c, 0)>>,
     cache |-> <<>>, pending |-> None, tx |-> <<>>, kpPending |-> None]

\* Client::create_group / create_group_with_id (called at client.rs:99-114)
NewGroup(c, g) ==
    [gid |-> g, epoch |-> 0, index |-> 0, roster |-> <<SigningIdentity(c, 0)>>,
     cache |-> <<>>, pending |-> None, tx |-> <<>>, kpPending |-> None]

Names(roster) == {roster[i].name : i \in 1..Len(roster)}

\* whether the engine accepts proposal p for a commit by `committer` on `roster`
ValidProposal(roster, committer, p) ==
    CASE p.ptype = "add" ->
            /\ p.kp[1].suite = GroupSuite
            /\ p.kp[1].owner.name \notin Names(roster)
      [] p.ptype = "update" ->
            /\ p.sender.kind = "member"
            /\ p.sender.index < Len(roster)
            /\ p.sender.index # committer
      [] OTHER -> FALSE

ApplyProposal(roster, p) ==
    CASE p.ptype = "add" -> Append(roster, p.kp[1].owner)
      [] p.ptype = "update" -> [roster EXCEPT ![p.sender.index + 1] = p.ident[1]]
      [] OTHER -> roster

\* the cached (by-reference) proposals a commit takes, in cache order: each is
\* taken if it is valid on the roster as changed by those taken before it
RECURSIVE Taken(_, _, _)
Taken(roster, committer, ps) ==
    IF ps = <<>> THEN <<>>
    ELSE IF ValidProposal(roster, committer, Head(ps))
         THEN <<Head(ps)>> \o Taken(ApplyProposal(roster, Head(ps)), committer, Tail(ps))
         ELSE Taken(roster, committer, Tail(ps))

RECURSIVE ApplyAll(_, _)
ApplyAll(roster, ps) ==
    IF ps = <<>> THEN roster ELSE ApplyAll(ApplyProposal(roster, Head(ps)), Tail(ps))

\* by-value proposals are all valid, each on the roster changed by the earlier ones
RECURSIVE AllValid(_, _, _)
AllValid(roster, committer, ps) ==
    IF ps = <<>> THEN TRUE
    ELSE /\ ValidProposal(roster, committer, Head(ps))
         /\ AllValid(ApplyProposal(roster, Head(ps)), committer, Tail(ps))

SeqRange(q) == {q[i] : i \in 1..Len(q)}
RECURSIVE Without(_, _)
Without(ps, taken) ==
    IF ps = <<>> THEN <<>>
    ELSE IF Head(ps) \in taken THEN Without(Tail(ps), taken)
         ELSE <<Head(ps)>> \o Without(Tail(ps), taken)

\* the content of a commit: its committer (whose keys the commit renews), the
\* proposals by reference, the proposals by value, and the committer's new
\* signing identity if it rotates it
CommitBody(committer, byRef, byValue, newIdent) ==
    [committer |-> committer, by_ref |-> byRef, by_value |-> byValue,
     new_identity |-> newIdent]

RosterAfter(roster, committer, body) ==
    LET r == ApplyAll(ApplyAll(roster, body.by_ref), body.by_value) IN
    IF body.new_identity = None THEN r
    ELSE [r EXCEPT ![committer + 1] = body.new_identity[1]]

Adds(body) == SelectSeq(body.by_ref \o body.by_value, LAMBDA p : p.ptype = "add")
\* ------------------------------------------------------------- engine: operations
\* Every engine operation returns [ok, s, ...]: on failure s is the unchanged group.

\* a variant that makes one welcome message for each added member
EngineCommit_welcome_each(s, byValue, newIdent) ==
    LET byRef == Taken(s.roster, s.index, s.cache)
        body == CommitBody(s.index, byRef, byValue, newIdent)
        cm == Msg("commit", s.gid, s.epoch, s.tx, MemberSender(s.index), body)
        newRoster == RosterAfter(s.roster, s.index, body)
        welcome(i) == Msg("welcome", s.gid, s.epoch + 1, Append(s.tx, body),
                          MemberSender(s.index),
                          [roster |-> newRoster, kps |-> {Adds(body)[i].kp[1]}])
    IN  IF \/ s.pending # None
           \/ ~AllValid(ApplyAll(s.roster, byRef), s.index, byValue)
        THEN [ok |-> FALSE, s |-> s, out |-> None]
        ELSE [ok |-> TRUE,
              s |-> [s EXCEPT !.pending = Some(cm)],
              out |-> Some([commit_message |-> cm,
                            welcome_messages |-> [i \in 1..Len(Adds(body)) |-> welcome(i)],
                            unused_proposals |-> Without(s.cache, SeqRange(byRef))])]

\* Group::commit / CommitBuilder::build (called at group.rs:132, 145, 172): the
\* commit is staged as the pending commit; the epoch changes when it is applied
EngineCommit(s, byValue, newIdent) ==
    LET byRef == Taken(s.roster, s.index, s.cache)
        body == CommitBody(s.index, byRef, byValue, newIdent)
        cm == Msg("commit", s.gid, s.epoch, s.tx, MemberSender(s.index), body)
        newRoster == RosterAfter(s.roster, s.index, body)
        welcome == Msg("welcome", s.gid, s.epoch + 1, Append(s.tx, body),
                       MemberSender(s.index),
                       [roster |-> newRoster,
                        kps |-> {Adds(body)[i].kp[1] : i \in 1..Len(Adds(body))}])
    IN  IF \/ s.pending # None
           \/ ~AllValid(ApplyAll(s.roster, byRef), s.index, byValue)
        THEN [ok |-> FALSE, s |-> s, out |-> None]
        ELSE [ok |-> TRUE,
              s |-> [s EXCEPT !.pending = Some(cm)],
              out |-> Some([commit_message |-> cm,
                            welcome_messages |-> IF Adds(body) = <<>> THEN <<>> ELSE <<welcome>>,
                            unused_proposals |-> Without(s.cache, SeqRange(byRef))])]

\* a variant in which the proposal cache survives the new epoch
AdvanceEpoch_keeps_cache(s, committer, body) ==
    [s EXCEPT !.epoch = @ + 1,
              !.roster = RosterAfter(s.roster, committer, body),
              !.pending = None,
              !.tx = Append(@, body)]

\* a variant in which applying a commit skips an epoch
AdvanceEpoch_skip(s, committer, body) ==
    [s EXCEPT !.epoch = @ + 2,
              !.roster = RosterAfter(s.roster, committer, body),
              !.cache = <<>>,
              !.pending = None,
              !.tx = Append(@, body)]

\* the state after a commit with content `body` by `committer` has been applied
AdvanceEpoch(s, committer, body) ==
    [s EXCEPT !.epoch = @ + 1,
              !.roster = RosterAfter(s.roster, committer, body),
              !.cache = <<>>,
              !.pending = None,
              !.tx = Append(@, body)]

NoRm == [kind |-> "none", sender |-> NewMemberSender, data |-> None, aad |-> None,
         proposal |-> None, effect |-> None]

NewEpochEffect(s, body) ==
    [tag |-> "NewEpoch", applied |-> body.by_ref \o body.by_value,
     unused |-> Without(s.cache, SeqRange(body.by_ref))]

\* Group::process_incoming_message (called at group.rs:296)
EngineProcess(s, m) ==
    LET fail == [ok |-> FALSE, s |-> s, rm |-> NoRm]
        done(s2, rm) == [ok |-> TRUE, s |-> s2, rm |-> rm]
    IN  CASE s.pending # None /\ m = s.pending[1] ->
                done(AdvanceEpoch(s, s.index, m.body),
                     [NoRm EXCEPT !.kind = "commit", !.sender = m.sender,
                                  !.effect = Some(NewEpochEffect(s, m.body))])
          [] m.kind \in {"key_package", "welcome", "group_info"} ->
                done(s, [NoRm EXCEPT !.kind = m.kind])
          [] m.gid # s.gid \/ m.epoch # s.epoch -> fail
          [] m.sender.kind = "member" /\ (m.tx # s.tx \/ m.sender.index = s.index
                                          \/ m.sender.index >= Len(s.roster)) -> fail
          [] m.kind = "application" ->
                done(s, [NoRm EXCEPT !.kind = "application", !.sender = m.sender,
                                     !.data = Some(m.body.data), !.aad = Some(m.body.aad)])
          [] m.kind = "proposal" ->
                done([s EXCEPT !.cache = Append(@, m.body.proposal)],
                     [NoRm EXCEPT !.kind = "proposal", !.sender = m.sender,
                                  !.proposal = Some(m.body.proposal),
                                  !.aad = Some(m.body.aad)])
          [] m.kind = "commit" ->
                IF SeqRange(m.body.by_ref) \subseteq SeqRange(s.cache)
                THEN done(AdvanceEpoch(s, m.sender.index, m.body),
                          [NoRm EXCEPT !.kind = "commit", !.sender = m.sender,
                                       !.effect = Some(NewEpochEffect(s, m.body))])
                ELSE fail
          [] OTHER -> fail

\* a variant in which the proposal is sent but not kept in the cache
EnginePropose_uncached(s, proposal, aad) ==
    [ok |-> TRUE,
     s |-> s,
     out |-> Some(Msg("proposal", s.gid, s.epoch, s.tx, MemberSender(s.index),
                      [proposal |-> proposal, aad |-> aad]))]

\* Group::propose_add / propose_update (called at group.rs:191, 380, 387): the
\* proposal is signed, put in the proposal cache and returned as a message
EnginePropose(s, proposal, aad) ==
    [ok |-> TRUE,
     s |-> [s EXCEPT !.cache = Append(@, proposal)],
     out |-> Some(Msg("proposal", s.gid, s.epoch, s.tx, MemberSender(s.index),
                      [proposal |-> proposal, aad |-> aad]))]

\* Group::encrypt_application_message_germ (called at group.rs:281): refused
\* while a proposal is pending in the cache, unless self proposals are allowed
\* and every pending proposal is the caller's own
EngineEncrypt(s, data, aad, allow_self_proposals) ==
    LET own(p) == p.sender = MemberSender(s.index)
        blocked == IF allow_self_proposals
                   THEN \E i \in 1..Len(s.cache) : ~own(s.cache[i])
                   ELSE s.cache # <<>>
    IN  IF blocked THEN [ok |-> FALSE, s |-> s, out |-> None]
        ELSE [ok |-> TRUE, s |-> s,
              out |-> Some(Msg("application", s.gid, s.epoch, s.tx, MemberSender(s.index),
                               [data |-> data, aad |-> aad]))]

\* a variant in which the joiner takes the first leaf whatever the Welcome says
EngineJoin_first(c, store, w) ==
    LET mine == store \cap w.body.kps IN
    IF w.kind # "welcome" \/ mine = {} THEN [ok |-> FALSE, s |-> None, used |-> {}]
    ELSE [ok |-> TRUE,
          s |-> Some([gid |-> w.gid, epoch |-> w.epoch, index |-> 0,
                      roster |-> w.body.roster, cache |-> <<>>, pending |-> None,
                      tx |-> w.tx, kpPending |-> Some(CHOOSE k \in mine : TRUE)]),
          used |-> {CHOOSE k \in mine : TRUE}]

\* a variant that builds a group at its first epoch whatever was stored
EngineLoad_fresh(stored) ==
    IF stored = None THEN [ok |-> FALSE, s |-> None]
    ELSE [ok |-> TRUE, s |-> Some([stored[1] EXCEPT !.epoch = 0, !.index = 0])]

\* Client::load_group (called at client.rs:150-151): the group is rebuilt from
\* the snapshot the group state storage holds for the group id; without a
\* snapshot the engine returns an error
EngineLoad(stored) ==
    IF stored = None THEN [ok |-> FALSE, s |-> None]
    ELSE [ok |-> TRUE, s |-> stored]

\* Client::join_group (called at client.rs:134): the group as the Welcome
\* describes it, for the key package of this client the Welcome was made for.
\* The engine reads the key package from the key-package storage and notes it
\* in the new group as to be removed; it removes it when the group is next
\* written to storage.
EngineJoin(c, store, w) ==
    LET mine == store \cap w.body.kps IN
    IF w.kind # "welcome" \/ mine = {} THEN [ok |-> FALSE, s |-> None, used |-> {}]
    ELSE LET kp == CHOOSE k \in mine : TRUE
             idx == CHOOSE i \in 0..(Len(w.body.roster) - 1) : w.body.roster[i + 1] = kp.owner
         IN [ok |-> TRUE,
             s |-> Some([gid |-> w.gid, epoch |-> w.epoch, index |-> idx,
                         roster |-> w.body.roster, cache |-> <<>>, pending |-> None,
                         tx |-> w.tx, kpPending |-> Some(kp)]),
             used |-> {kp}]
\* ------------------------------------------------------------- wrapper: conversions
\* TryFrom<ProposalInfo<Proposal>> and TryFrom<ProposalMessageDescription> for
\* ProposalFFI (message.rs:200-246); None is Err
ProposalFFI_try_from(p) ==
    CASE p.ptype = "add" ->
            \* KeyPackageFFI::try_from, message.rs:314-332: cipher_suite.try_into()?
            IF p.kp[1].suite = GroupSuite
            THEN Some([tag |-> "Add", kp |-> p.kp, new |-> None, index |-> 0])
            ELSE None
      [] p.ptype = "update" ->
            IF p.sender.kind = "member"
            THEN Some([tag |-> "Update", kp |-> None, new |-> p.ident, index |-> p.sender.index])
            ELSE None
      [] OTHER -> Some([tag |-> "Remove", kp |-> None, new |-> None, index |-> 0])

\* a variant that stops collecting at the first proposal that fails to convert
RECURSIVE FlatMapProposals_until_failure(_)
FlatMapProposals_until_failure(ps) ==
    IF ps = <<>> \/ ProposalFFI_try_from(Head(ps)) = None THEN <<>>
    ELSE ProposalFFI_try_from(Head(ps)) \o FlatMapProposals_until_failure(Tail(ps))

\* into_iter().flat_map(|p| p.try_into()).collect(): failures are dropped
RECURSIVE FlatMapProposals(_)
FlatMapProposals(ps) ==
    IF ps = <<>> THEN <<>>
    ELSE ProposalFFI_try_from(Head(ps)) \o FlatMapProposals(Tail(ps))

\* a variant that never hands out the welcome message
CommitOutputFFI_try_from_no_welcome(out) ==
    [commit_message |-> out.commit_message,
     welcome_message |-> None,
     unused_proposals |-> FlatMapProposals(out.unused_proposals)]

\* TryFrom<CommitOutput> for CommitOutputFFI (group.rs:63-90)
CommitOutputFFI_try_from(out) ==
    [commit_message |-> out.commit_message,
     welcome_message |-> IF out.welcome_messages = <<>> THEN None
                         ELSE Some(Head(out.welcome_messages)),
     unused_proposals |-> FlatMapProposals(out.unused_proposals)]

\* From<CommitEffect> for CommitEffectFFI (message.rs:339-363)
CommitEffectFFI_from(effect) ==
    [tag |-> "NewEpoch",
     applied_proposals |-> FlatMapProposals(effect.applied),
     unused_proposals |-> FlatMapProposals(effect.unused)]

\* ------------------------------------------------------------- wrapper: GroupFFI calls
\* Each call is [res, s, val]: res is "ok", "err" or "panic", s the group when
\* the call ends, val the Option of the returned value.
Ok(s, v) == [res |-> "ok", s |-> s, val |-> Some(v)]
Err(s) == [res |-> "err", s |-> s, val |-> None]
\* an error of the wrapper's own, with its MlSrsError variant (mls_rs_error.rs)
ErrOf(s, e) == [res |-> "err", s |-> s, val |-> Some(e)]
Panic(s) == [res |-> "panic", s |-> s, val |-> None]

FromEngine(r) == IF r.ok THEN Ok(r.s, r.out[1]) ELSE Err(r.s)

\* a variant in which commit() applies the commit it has built
commit_applied(s) ==
    LET r == EngineCommit(s, <<>>, None) IN
    IF r.ok THEN Ok(AdvanceEpoch(r.s, s.index, r.out[1].commit_message.body),
                    CommitOutputFFI_try_from(r.out[1]))
    ELSE Err(r.s)

\* group.rs:130-134
commit(s) ==
    LET r == EngineCommit(s, <<>>, None) IN
    IF r.ok THEN Ok(r.s, CommitOutputFFI_try_from(r.out[1])) ELSE Err(r.s)

\* group.rs:108-111: the engine hands a snapshot of the group to the storage
\* and, when the storage's write returned Ok, deletes the key package the group
\* was joined with, if it is still to be removed; the error of the storage is
\* returned as it is (config.rs:83-97, map_err at group.rs:110)
write_to_storage(s, write_ok) ==
    IF write_ok THEN Ok([s EXCEPT !.kpPending = None], "unit") ELSE ErrOf(s, "AnyError")

\* group.rs:136-147: a commit that gives the committer a new signing identity
commit_new_identity(s, signer, signing_identity) ==
    LET r == EngineCommit(s, <<>>, Some(signing_identity)) IN
    IF r.ok THEN Ok(r.s, CommitOutputFFI_try_from(r.out[1])) ELSE Err(r.s)

\* a variant in which the key packages are put in the proposal cache before
\* the commit is built
add_members_cached_first(s, key_packages) ==
    IF \E i \in 1..Len(key_packages) : key_packages[i].kind # "key_package" THEN Err(s)
    ELSE LET byValue == [i \in 1..Len(key_packages) |->
                            AddProposal(MemberSender(s.index), key_packages[i].body)]
             r == EngineCommit([s EXCEPT !.cache = @ \o byValue], <<>>, None)
         IN IF r.ok /\ AllValid(s.roster, s.index, byValue)
            THEN Ok(r.s, CommitOutputFFI_try_from(r.out[1]))
            ELSE Err([s EXCEPT !.cache = @ \o byValue])

\* group.rs:163-174: add_member(..)? for each key package, then build()?
add_members(s, key_packages) ==
    IF \E i \in 1..Len(key_packages) : key_packages[i].kind # "key_package" THEN Err(s)
    ELSE LET byValue == [i \in 1..Len(key_packages) |->
                            AddProposal(MemberSender(s.index), key_packages[i].body)]
             r == EngineCommit(s, byValue, None)
         IN IF r.ok THEN Ok(r.s, CommitOutputFFI_try_from(r.out[1])) ELSE Err(r.s)

\* group.rs:182-195: propose_add(..)? for each key package in turn
RECURSIVE propose_add_loop(_, _, _)
propose_add_loop(s, key_packages, messages) ==
    IF key_packages = <<>> THEN Ok(s, messages)
    ELSE IF Head(key_packages).kind # "key_package" THEN Err(s)
    ELSE LET r == EnginePropose(s, AddProposal(MemberSender(s.index), Head(key_packages).body), <<>>)
         IN propose_add_loop(r.s, Tail(key_packages), Append(messages, r.out[1]))

propose_add_members(s, key_packages) == propose_add_loop(s, key_packages, <<>>)

\* a variant in which a lone signer or a lone identity is ignored
propose_update_lenient(s, signer, signing_identity, authenticated_data) ==
    IF signer # None /\ signing_identity # None
    THEN FromEngine(EnginePropose(s, UpdateProposal(MemberSender(s.index), signing_identity[1]),
                                  authenticated_data))
    ELSE FromEngine(EnginePropose(s, UpdateProposal(MemberSender(s.index), s.roster[s.index + 1]),
                                  authenticated_data))

\* group.rs:370-390
propose_update(s, signer, signing_identity, authenticated_data) ==
    CASE signer # None /\ signing_identity # None ->
            FromEngine(EnginePropose(s, UpdateProposal(MemberSender(s.index), signing_identity[1]),
                                     authenticated_data))
      [] signer = None /\ signing_identity = None ->
            FromEngine(EnginePropose(s, UpdateProposal(MemberSender(s.index), s.roster[s.index + 1]),
                                     authenticated_data))
      [] OTHER -> ErrOf(s, "InconsistentOptionalParameters")

\* group.rs:197-209: the id is decoded, then Group::propose_external_psk caches
\* and returns the proposal
propose_external_psk(s, psk_id, authenticated_data) ==
    LET id == ExternalPskId_mls_decode(psk_id) IN
    IF id = None THEN ErrOf(s, "MlsCodecError")
    ELSE FromEngine(EnginePropose(s, PskProposal(MemberSender(s.index), id[1]),
                                  authenticated_data))

\* a variant in which the cache survives the call
clear_proposal_cache_kept(s) == Ok(s, "unit")

\* group.rs:392-394
clear_proposal_cache(s) == Ok([s EXCEPT !.cache = <<>>], "unit")

\* a variant that never allows self proposals
encrypt_application_message_strict(s, message, authenticated_data, allow_self_proposals) ==
    FromEngine(EngineEncrypt(s, message, authenticated_data, FALSE))

\* group.rs:274-287
encrypt_application_message(s, message, authenticated_data, allow_self_proposals) ==
    FromEngine(EngineEncrypt(s, message, authenticated_data, allow_self_proposals))

\* group.rs:317-331, the Proposal arm once the engine has returned the proposal
process_proposal_arm(s, rm) ==
    IF rm.sender.kind # "member" THEN Panic(s)   \* todo!(), group.rs:322
    ELSE LET sender == index_to_identity(s, rm.sender.index)
             proposal == ProposalFFI_try_from(rm.proposal[1])
         IN IF sender = None \/ proposal = None THEN Err(s)
            ELSE Ok(s, [tag |-> "ReceivedProposal", sender |-> sender[1],
                        proposal |-> proposal[1], authenticated_data |-> rm.aad[1]])

\* Group::export_secret (called at group.rs:472-474): the bytes are derived from
\* the secret of the group's current epoch, which the members that applied the
\* same commits share, and from the label, the context and the length
EngineExportSecret(s, label, context, len) ==
    [ok |-> TRUE, s |-> s,
     out |-> Some([epoch_secret |-> [gid |-> s.gid, epoch |-> s.epoch, tx |-> s.tx],
                   label |-> label, context |-> context, len |-> len])]

\* the group as it was before its last commit was applied
EpochBefore(s) ==
    IF s.tx = <<>> THEN s
    ELSE [s EXCEPT !.epoch = @ - 1, !.tx = SubSeq(@, 1, Len(@) - 1)]

\* a variant that answers with the secret of the epoch before the current one
export_secret_remembered(s, label, context, len) ==
    LET r == EngineExportSecret(EpochBefore(s), label, context, len) IN
    Ok(s, r.out[1])

\* group.rs:465-477
export_secret(s, label, context, len) ==
    FromEngine(EngineExportSecret(s, label, context, len))

\* a variant that looks the sender up in the roster before the message is applied
process_incoming_message_roster_before(s, message) ==
    LET e == EngineProcess(s, message) IN
    IF ~e.ok THEN Err(e.s)
    ELSE CASE e.rm.kind = "application" ->
                LET sender == index_to_identity(s, e.rm.sender.index) IN
                IF sender = None THEN Err(e.s)
                ELSE Ok(e.s, [tag |-> "ApplicationMessage", sender |-> sender[1],
                              data |-> e.rm.data[1], authenticated_data |-> e.rm.aad[1]])
           [] e.rm.kind = "commit" ->
                LET committer == index_to_identity(s, e.rm.sender.index) IN
                IF committer = None THEN Err(e.s)
                ELSE Ok(e.s, [tag |-> "Commit", committer |-> committer[1],
                              effect |-> CommitEffectFFI_from(e.rm.effect[1])])
           [] e.rm.kind = "proposal" -> process_proposal_arm(e.s, e.rm)
           [] e.rm.kind = "group_info" -> Ok(e.s, [tag |-> "GroupInfo"])
           [] e.rm.kind = "welcome" -> Ok(e.s, [tag |-> "Welcome"])
           [] OTHER -> Ok(e.s, [tag |-> "KeyPackage"])

\* group.rs:290-339
process_incoming_message(s, message) ==
    LET e == EngineProcess(s, message) IN
    IF ~e.ok THEN Err(e.s)
    ELSE CASE e.rm.kind = "application" ->
                LET sender == index_to_identity(e.s, e.rm.sender.index) IN
                IF sender = None THEN Err(e.s)
                ELSE Ok(e.s, [tag |-> "ApplicationMessage", sender |-> sender[1],
                              data |-> e.rm.data[1], authenticated_data |-> e.rm.aad[1]])
           [] e.rm.kind = "commit" ->
                LET committer == index_to_identity(e.s, e.rm.sender.index) IN
                IF committer = None THEN Err(e.s)
                ELSE Ok(e.s, [tag |-> "Commit", committer |-> committer[1],
                              effect |-> CommitEffectFFI_from(e.rm.effect[1])])
           [] e.rm.kind = "proposal" -> process_proposal_arm(e.s, e.rm)
           [] e.rm.kind = "group_info" -> Ok(e.s, [tag |-> "GroupInfo"])
           [] e.rm.kind = "welcome" -> Ok(e.s, [tag |-> "Welcome"])
           [] OTHER -> Ok(e.s, [tag |-> "KeyPackage"])
\* ------------------------------------------------------------- the program
\* no write_to_storage call has been made and no write has reached the storage
NoWrites == [calls |-> 0, got |-> 0, ok |-> 0]

\* a variant in which the engine hands the snapshot to the storage twice
StorageReceives_twice(w) == [w EXCEPT !.got = @ + 2]

\* ClientGroupStorage::write (config.rs:83-97): the one write call the engine
\* makes in write_to_storage reaches the client's group state storage
StorageReceives(w) == [w EXCEPT !.got = @ + 1]

\* a thread that is not in a call
IdleThread == [pc |-> "idle", op |-> "none", g |-> GeneratedGid, arg |-> None,
               local |-> None, res |-> "ok", val |-> None]

\* no thread is in a call, no lock is held and nothing has been stored
NoThreads ==
    /\ thr = [t \in Threads |-> IdleThread]
    /\ holder = [k \in Gids |-> None]
    /\ sholder = None
    /\ storage = [c \in Clients |-> [g \in Gids |-> None]]
    /\ seqGrp = [g \in Gids |-> None]
    /\ groups = [g \in Gids |-> None]
    /\ written = [g \in Gids |-> None]
    /\ writes = [c \in Clients |-> NoWrites]

Init ==
    /\ NoThreads
    /\ grp = [c \in Clients |-> [g \in Gids |-> None]]
    /\ poisoned = [c \in Clients |-> [g \in Gids |-> FALSE]]
    /\ kpStore = [c \in Clients |-> {}]
    /\ net = {}
    /\ last = NoCall
    /\ ops = MaxOps

\* GroupFFI::inner (group.rs:27-29): lock().unwrap() panics on a poisoned Mutex
\* before the call touches the group; the guard is dropped when the call ends
inner(c, g, r) == IF poisoned[c][g] THEN Panic(G(c, g)) ELSE r

\* one more call is made; a run is cut when its budget of calls is used up
Called == ops > 0 /\ ops' = ops - 1 /\ UNCHANGED conc

\* a call on the handle (c, g) ends with r; a panic while the guard is held
\* poisons the Mutex
Returns(op, c, g, r, arg) ==
    /\ grp' = [grp EXCEPT ![c][g] = Some(r.s)]
    /\ poisoned' = [poisoned EXCEPT ![c][g] = @ \/ r.res = "panic"]
    /\ last' = [op |-> op, c |-> c, g |-> g, res |-> r.res, pre |-> grp[c][g],
                arg |-> arg, val |-> r.val]

Return(op, c, g, r, arg) == Called /\ Returns(op, c, g, r, arg)

Sent(r, msgs) == net' = IF r.res = "ok" THEN net \cup msgs ELSE net

\* ClientFFI::create_group (client.rs:98-118)
CreateGroup(c, gid_opt) ==
    LET g == IF gid_opt = None THEN GeneratedGid ELSE gid_opt[1] IN
    /\ Called
    /\ \A c2 \in Clients, g2 \in Gids : ~Has(c2, g2)
    /\ grp' = [grp EXCEPT ![c][g] = Some(NewGroup(c, g))]
    /\ last' = [op |-> "create_group", c |-> c, g |-> g, res |-> "ok", pre |-> None,
                arg |-> Some(gid_opt), val |-> None]
    /\ UNCHANGED <<poisoned, kpStore, net>>

Generated(c) == {m \in net : m.kind = "key_package" /\ m.body.owner.name = c}

\* ClientFFI::generate_key_package_message (client.rs:75-84): the engine stores
\* the key package data in the key-package storage (config.rs:43-49)
GenerateKeyPackage(c) ==
    LET kp == KeyPackage(c, Cardinality(Generated(c))) IN
    /\ Called
    /\ kpStore' = [kpStore EXCEPT ![c] = @ \cup {kp}]
    /\ net' = net \cup {KeyPackageMsg(kp)}
    /\ last' = [op |-> "generate_key_package_message", c |-> c, g |-> 0, res |-> "ok",
                pre |-> None, arg |-> None, val |-> Some(KeyPackageMsg(kp))]
    /\ UNCHANGED <<grp, poisoned>>

\* ClientFFI::join_group (client.rs:128-144): on success the caller gets a new
\* handle with its own Mutex (client.rs:139-141), which takes the place of the
\* handle it may have had for the group; nothing is written to or deleted from
\* a storage here
JoinGroup(c, w) ==
    LET r == EngineJoin(c, kpStore[c], w) IN
    /\ Called
    /\ w.gid \in Gids
    /\ grp' = IF r.ok THEN [grp EXCEPT ![c][w.gid] = r.s] ELSE grp
    /\ poisoned' = IF r.ok THEN [poisoned EXCEPT ![c][w.gid] = FALSE] ELSE poisoned
    /\ last' = [op |-> "join_group", c |-> c, g |-> w.gid,
                res |-> IF r.ok THEN "ok" ELSE "err", pre |-> None,
                arg |-> Some(w), val |-> None]
    /\ UNCHANGED <<kpStore, net>>

\* GroupFFI::write_to_storage (group.rs:108-111): the snapshot goes to the
\* client's group state storage, and the key package the group was joined with
\* is deleted from the key-package storage (config.rs:35-37)
\* write_ok: whether the write of the client's storage returns Ok
WriteToStorage(c, g, write_ok) ==
    /\ Has(c, g)
    /\ ops > 0 /\ ops' = ops - 1
    /\ LET r == inner(c, g, write_to_storage(G(c, g), write_ok)) IN
        /\ Returns("write_to_storage", c, g, r, Some(write_ok))
        /\ storage' = IF r.res = "ok" THEN [storage EXCEPT ![c][g] = Some(r.s)] ELSE storage
        /\ kpStore' = IF r.res = "ok"
                      THEN [kpStore EXCEPT ![c] = @ \ SeqRange(G(c, g).kpPending)]
                      ELSE kpStore
        /\ writes' = [writes EXCEPT
                         ![c] = LET w == [@ EXCEPT !.calls = @ + 1,
                                                   !.ok = IF r.res = "ok" THEN @ + 1 ELSE @]
                                IN IF r.res = "panic" THEN w ELSE StorageReceives(w)]
    /\ UNCHANGED <<net, thr, holder, sholder, seqGrp, mock>>

\* ClientFFI::load_group (client.rs:149-157): on success the caller gets a new
\* handle with its own Mutex, which takes the place of the handle it may have
\* had for the group
LoadGroup(c, g) ==
    LET r == EngineLoad(storage[c][g]) IN
    /\ Called
    /\ grp' = IF r.ok THEN [grp EXCEPT ![c][g] = r.s] ELSE grp
    /\ poisoned' = IF r.ok THEN [poisoned EXCEPT ![c][g] = FALSE] ELSE poisoned
    /\ last' = [op |-> "load_group", c |-> c, g |-> g,
                res |-> IF r.ok THEN "ok" ELSE "err", pre |-> grp[c][g],
                arg |-> Some(g), val |-> None]
    /\ UNCHANGED <<kpStore, net>>

\* the caller drops its GroupFFI handle (group.rs:20-23: the Arc<Mutex<Group>>
\* goes with its last clone); nothing is written
DropHandle(c, g) ==
    /\ Has(c, g)
    /\ Called
    /\ grp' = [grp EXCEPT ![c][g] = None]
    /\ poisoned' = [poisoned EXCEPT ![c][g] = FALSE]
    /\ last' = [op |-> "drop", c |-> c, g |-> g, res |-> "ok", pre |-> grp[c][g],
                arg |-> None, val |-> None]
    /\ UNCHANGED <<kpStore, net>>

\* the key package messages a caller can pass
KeyPackageInputs == {m \in net : m.kind = "key_package"} \cup {KeyPackageMsg(ForeignKeyPackage)}
KeyPackageLists == UNION {[1..n -> KeyPackageInputs] : n \in 1..MaxAdd}

Commit(c, g) ==
    /\ Has(c, g)
    /\ LET r == inner(c, g, commit(G(c, g))) IN
        /\ Return("commit", c, g, r, None)
        /\ Sent(r, IF r.res = "ok" THEN {r.val[1].commit_message} ELSE {})
    /\ UNCHANGED kpStore

AddMembers(c, g, key_packages) ==
    /\ Has(c, g)
    /\ LET r == inner(c, g, add_members(G(c, g), key_packages)) IN
        /\ Return("add_members", c, g, r, Some(key_packages))
        /\ Sent(r, IF r.res = "ok"
                   THEN {r.val[1].commit_message} \cup SeqRange(r.val[1].welcome_message)
                   ELSE {})
    /\ UNCHANGED kpStore

CommitNewIdentity(c, g, signer, signing_identity) ==
    /\ Has(c, g)
    /\ LET r == inner(c, g, commit_new_identity(G(c, g), signer, signing_identity)) IN
        /\ Return("commit_new_identity", c, g, r, Some(signing_identity))
        /\ Sent(r, IF r.res = "ok" THEN {r.val[1].commit_message} ELSE {})
    /\ UNCHANGED kpStore

ProposeAddMembers(c, g, key_packages) ==
    /\ Has(c, g)
    /\ LET r == inner(c, g, propose_add_members(G(c, g), key_packages)) IN
        /\ Return("propose_add_members", c, g, r, Some(key_packages))
        /\ Sent(r, IF r.res = "ok" THEN SeqRange(r.val[1]) ELSE {})
    /\ UNCHANGED kpStore

ProposeUpdate(c, g, signer, signing_identity) ==
    /\ Has(c, g)
    /\ LET r == inner(c, g, propose_update(G(c, g), signer, signing_identity, <<>>)) IN
        /\ Return("propose_update", c, g, r, Some(<<signer, signing_identity>>))
        /\ Sent(r, IF r.res = "ok" THEN {r.val[1]} ELSE {})
    /\ UNCHANGED kpStore

ProposeExternalPsk(c, g, psk_id) ==
    /\ Has(c, g)
    /\ LET r == inner(c, g, propose_external_psk(G(c, g), psk_id, <<>>)) IN
        /\ Return("propose_external_psk", c, g, r, Some(psk_id))
        /\ Sent(r, IF r.res = "ok" THEN {r.val[1]} ELSE {})
    /\ UNCHANGED kpStore

ClearProposalCache(c, g) ==
    /\ Has(c, g) /\ G(c, g).cache # <<>>
    /\ Return("clear_proposal_cache", c, g, inner(c, g, clear_proposal_cache(G(c, g))), None)
    /\ UNCHANGED <<kpStore, net>>

EncryptApplicationMessage(c, g, message, authenticated_data, allow_self_proposals) ==
    /\ Has(c, g)
    /\ LET r == inner(c, g, encrypt_application_message(G(c, g), message, authenticated_data,
                                                        allow_self_proposals)) IN
        /\ Return("encrypt_application_message", c, g, r, Some(allow_self_proposals))
        /\ Sent(r, IF r.res = "ok" THEN {r.val[1]} ELSE {})
    /\ UNCHANGED kpStore

\* labels, contexts and lengths a caller asks an exported secret for
ExportInputs == [label : {"exporter"}, context : {<<>>, <<"ctx">>}, len : {16, 32}]

ExportSecret(c, g, a) ==
    /\ Has(c, g)
    /\ Return("export_secret", c, g,
              inner(c, g, export_secret(G(c, g), a.label, a.context, a.len)), Some(a))
    /\ UNCHANGED <<kpStore, net>>

\* an Add proposal sent as a public message by a party that is not a member
NewMemberProposalMsg(s) ==
    Msg("proposal", s.gid, s.epoch, <<>>, NewMemberSender,
        [proposal |-> AddProposal(NewMemberSender, ForeignKeyPackage), aad |-> <<>>])

ProcessIncomingMessage(c, g, m) ==
    /\ Has(c, g)
    /\ Return("process_incoming_message", c, g,
              inner(c, g, process_incoming_message(G(c, g), m)), Some(m))
    /\ UNCHANGED <<kpStore, net>>

Next ==
    \/ \E c \in Creators, id \in {None, Some(SuppliedGid)} : CreateGroup(c, id)
    \/ \E c \in Joiners : GenerateKeyPackage(c)
    \/ \E c \in Joiners, w \in net : JoinGroup(c, w)
    \/ \E c \in Clients, g \in Gids : Commit(c, g)
    \/ \E c \in Clients, g \in Gids : CommitNewIdentity(c, g, "key", SigningIdentity(c, 1))
    \/ \E c \in Clients, g \in Gids, kps \in KeyPackageLists : AddMembers(c, g, kps)
    \/ \E c \in Clients, g \in Gids, kps \in KeyPackageLists : ProposeAddMembers(c, g, kps)
    \/ \E c \in Clients, g \in Gids, sg \in {None, Some("key")} :
          \E id \in {None, Some(SigningIdentity(c, 1))} : ProposeUpdate(c, g, sg, id)
    \/ \E c \in Clients, g \in Gids, id \in PskIdInputs : ProposeExternalPsk(c, g, id)
    \/ \E c \in Clients, g \in Gids : ClearProposalCache(c, g)
    \/ \E c \in Clients, g \in Gids, m \in Plaintexts, ad \in AuthData, allow \in BOOLEAN :
          EncryptApplicationMessage(c, g, m, ad, allow)
    \/ \E c \in Clients, g \in Gids :
          \E m \in net \cup (IF Has(c, g) THEN {NewMemberProposalMsg(G(c, g))} ELSE {}) :
             ProcessIncomingMessage(c, g, m)

Spec == Init /\ [][Next]_vars

\* ------------------------------------------------------------- after setup_test
\* lib.rs:276-298: alice creates a group, adds bob with his key package and
\* processes her own commit; bob joins with the Welcome.  The state and the
\* transport are those the five calls leave behind.
SetupKp == KeyPackage("B", 0)
SetupGroup0 == NewGroup("A", GeneratedGid)
SetupAdd == add_members(SetupGroup0, <<KeyPackageMsg(SetupKp)>>)
SetupAlice == process_incoming_message(SetupAdd.s, SetupAdd.val[1].commit_message).s
SetupBob == EngineJoin("B", {SetupKp}, SetupAdd.val[1].welcome_message[1]).s[1]

SetupState ==
    /\ NoThreads
    /\ grp = [c \in Clients |-> [g \in Gids |->
                IF g # GeneratedGid THEN None
                ELSE IF c = "A" THEN Some(SetupAlice) ELSE Some(SetupBob)]]
    /\ poisoned = [c \in Clients |-> [g \in Gids |-> FALSE]]
    /\ kpStore = [c \in Clients |-> IF c = "B" THEN {SetupKp} ELSE {}]
    /\ net = {KeyPackageMsg(SetupKp), SetupAdd.val[1].commit_message,
              SetupAdd.val[1].welcome_message[1]}
    /\ last = NoCall

InitSetup == SetupState /\ ops = MaxMore

NextSetup ==
    \/ \E c \in Clients, g \in Gids : Commit(c, g)
    \/ \E c \in Clients, g \in Gids : CommitNewIdentity(c, g, "key", SigningIdentity(c, 1))
    \/ \E c \in Clients, g \in Gids, kps \in KeyPackageLists : AddMembers(c, g, kps)
    \/ \E c \in Clients, g \in Gids, kps \in KeyPackageLists : ProposeAddMembers(c, g, kps)
    \/ \E c \in Clients, g \in Gids, sg \in {None, Some("key")} :
          \E id \in {None, Some(SigningIdentity(c, 1))} : ProposeUpdate(c, g, sg, id)
    \/ \E c \in Clients, g \in Gids, id \in PskIdInputs : ProposeExternalPsk(c, g, id)
    \/ \E c \in Clients, g \in Gids : ClearProposalCache(c, g)
    \/ \E c \in Clients, g \in Gids, m \in Plaintexts, ad \in AuthData, allow \in BOOLEAN :
          EncryptApplicationMessage(c, g, m, ad, allow)
    \/ \E c \in Clients, g \in Gids :
          \E m \in net \cup (IF Has(c, g) THEN {NewMemberProposalMsg(G(c, g))} ELSE {}) :
             ProcessIncomingMessage(c, g, m)

SpecSetup == InitSetup /\ [][NextSetup]_vars

\* ------------------------------------------------------------- persistence
\* After setup_test the sessions are written to the group state storage of their
\* client (group.rs:108-111), dropped and loaded again (client.rs:149-157),
\* between the other calls on them.
MaxPersist == 3

InitPersist == SetupState /\ ops = MaxPersist

NextPersist ==
    \/ \E c \in Clients, g \in Gids, write_ok \in BOOLEAN : WriteToStorage(c, g, write_ok)
    \/ \E c \in Clients, g \in Gids : LoadGroup(c, g)
    \/ \E c \in Clients, g \in Gids : DropHandle(c, g)
    \/ \E c \in Joiners, w \in net : JoinGroup(c, w)
    \/ \E c \in Clients, g \in Gids : Commit(c, g)
    \/ \E c \in Clients, g \in Gids, m \in KeyPackageInputs : AddMembers(c, g, <<m>>)
    \/ \E c \in Clients, g \in Gids, m \in KeyPackageInputs : ProposeAddMembers(c, g, <<m>>)
    \/ \E c \in Clients, g \in Gids : ProposeUpdate(c, g, None, None)
    \/ \E c \in Clients, g \in Gids, id \in PskIdInputs : ProposeExternalPsk(c, g, id)
    \/ \E c \in Clients, g \in Gids, m \in Plaintexts :
          EncryptApplicationMessage(c, g, m, <<>>, FALSE)
    \/ \E c \in Clients, g \in Gids, m \in net : ProcessIncomingMessage(c, g, m)
    \/ \E c \in Clients, g \in Gids, a \in ExportInputs : ExportSecret(c, g, a)

SpecPersist == InitPersist /\ [][NextPersist]_vars

\* ------------------------------------------------------------- several members at once
\* A has created a group and calls add_members and propose_add_members with
\* lists of several messages (group.rs:163-195): key packages of B and of a
\* third party, and a message that is no key package.
BatchLists ==
    LET inputs == {KeyPackageMsg(KeyPackage("B", 0)), KeyPackageMsg(KeyPackage("C", 0)),
                   SetupAdd.val[1].commit_message}
    IN {q \in UNION {[1..n -> inputs] : n \in 1..MaxBatch} :
           \A i, j \in 1..Len(q) : i # j => q[i] # q[j]}

InitBatch ==
    /\ NoThreads
    /\ grp = [c \in Clients |-> [g \in Gids |->
                IF c = "A" /\ g = GeneratedGid THEN Some(NewGroup(c, g)) ELSE None]]
    /\ poisoned = [c \in Clients |-> [g \in Gids |-> FALSE]]
    /\ kpStore = [c \in Clients |-> IF c = "B" THEN {KeyPackage("B", 0)} ELSE {}]
    /\ net = {}
    /\ last = NoCall
    /\ ops = MaxBatchOps

NextBatch ==
    \/ \E kps \in BatchLists : AddMembers("A", GeneratedGid, kps)
    \/ \E kps \in BatchLists : ProposeAddMembers("A", GeneratedGid, kps)
    \/ Commit("A", GeneratedGid)
    \/ \E m \in net : ProcessIncomingMessage("A", GeneratedGid, m)
    \/ \E w \in net : JoinGroup("B", w)

SpecBatch == InitBatch /\ [][NextBatch]_vars

\* ------------------------------------------------------------- threads
\* Two threads call into the two sessions of one client through GroupFFI
\* handles (group.rs:20-23: Arc<Mutex<Group>>, cloned handles share the Mutex).
\* A call takes the session's lock in inner() (group.rs:27-29), works on the
\* group behind it and drops the guard when it returns.  write_to_storage
\* (group.rs:108-111) reaches, under the session lock, the client's one storage
\* backend, which keeps all groups behind one Mutex (group_state.rs:235-245,
\* lib.rs:312-327).
ConcClient == "A"

\* a variant in which all sessions share one lock
LockOf_shared(g) == GeneratedGid

\* the Mutex of the session with group id g: each GroupFFI is built with its
\* own Mutex (client.rs:115-117, 139-141)
LockOf(g) == g

\* a variant in which the lock is granted whoever holds it
LockFree_always(g) == TRUE

\* Mutex::lock returns once no other thread holds the lock
LockFree(g) == holder[LockOf(g)] = None

\* the call `op` with argument `arg` on the group s
Apply(op, arg, s) ==
    CASE op = "commit" -> commit(s)
      [] op = "propose_update" -> propose_update(s, None, None, <<>>)
      [] op = "clear_proposal_cache" -> clear_proposal_cache(s)
      [] op = "process_incoming_message" -> process_incoming_message(s, arg[1])
      [] op = "write_to_storage" -> write_to_storage(s, TRUE)
      [] op = "members" -> Ok(s, members(s))
      [] op = "group_id" -> Ok(s, group_id(s))
      [] op = "member_at_index" -> Ok(s, member_at_index(s, 0))
      [] OTHER -> Ok(s, current_epoch(s))

\* the messages a call gives back to its caller
Produced(op, r) ==
    IF r.res # "ok" THEN {}
    ELSE CASE op = "commit" -> {r.val[1].commit_message}
           [] op = "propose_update" -> {r.val[1]}
           [] OTHER -> {}

InitConc ==
    /\ grp = [c \in Clients |-> [g \in Gids |->
                IF c = ConcClient THEN Some(NewGroup(c, g)) ELSE None]]
    /\ poisoned = [c \in Clients |-> [g \in Gids |-> FALSE]]
    /\ kpStore = [c \in Clients |-> {}]
    /\ net = {}
    /\ last = NoCall
    /\ ops = MaxConc
    /\ thr = [t \in Threads |-> IdleThread]
    /\ holder = [k \in Gids |-> None]
    /\ sholder = None
    /\ storage = [c \in Clients |-> [g \in Gids |-> None]]
    /\ seqGrp = [g \in Gids |-> NewGroup(ConcClient, g)]
    /\ groups = [g \in Gids |-> None]
    /\ written = [g \in Gids |-> None]
    /\ writes = [c \in Clients |-> NoWrites]

At(t, pc) == thr[t].pc = pc
Goto(t, pc) == thr' = [thr EXCEPT ![t].pc = pc]
Ended(t, res, pre) ==
    last' = [op |-> thr[t].op, c |-> ConcClient, g |-> thr[t].g, res |-> res,
             pre |-> pre, arg |-> thr[t].arg, val |-> thr[t].val]

\* a thread enters a GroupFFI call
Begin(t, g, op, arg) ==
    /\ At(t, "idle") /\ ops > 0
    /\ ops' = ops - 1
    /\ thr' = [thr EXCEPT ![t] = [IdleThread EXCEPT !.pc = "lock", !.op = op,
                                                    !.g = g, !.arg = arg]]
    /\ writes' = IF op = "write_to_storage"
                 THEN [writes EXCEPT ![ConcClient].calls = @ + 1] ELSE writes
    /\ UNCHANGED <<grp, poisoned, kpStore, net, last, holder, sholder, storage, seqGrp, mock>>

\* inner(): self.inner.lock().unwrap(); a poisoned Mutex makes unwrap() panic,
\* and the guard inside the error is dropped at once
Lock(t) ==
    /\ At(t, "lock") /\ LockFree(thr[t].g)
    /\ IF poisoned[ConcClient][thr[t].g]
       THEN /\ thr' = [thr EXCEPT ![t] = IdleThread]
            /\ Ended(t, "panic", grp[ConcClient][thr[t].g])
            /\ UNCHANGED holder
       ELSE /\ holder' = [holder EXCEPT ![LockOf(thr[t].g)] = Some(t)]
            /\ Goto(t, "read")
            /\ UNCHANGED last
    /\ UNCHANGED <<grp, poisoned, kpStore, net, ops, sholder, storage, seqGrp, mock, writes>>

\* the call reads the group behind the guard
Read(t) ==
    /\ At(t, "read")
    /\ thr' = [thr EXCEPT ![t].pc = "write", ![t].local = grp[ConcClient][thr[t].g]]
    /\ UNCHANGED <<grp, poisoned, kpStore, net, last, ops, holder, sholder, storage, seqGrp, mock, writes>>

\* the call leaves the group as the operation makes it
Write(t) ==
    /\ At(t, "write")
    /\ LET g == thr[t].g
           r == Apply(thr[t].op, thr[t].arg, thr[t].local[1])
       IN /\ grp' = [grp EXCEPT ![ConcClient][g] = Some(r.s)]
          /\ seqGrp' = [seqGrp EXCEPT ![g] = Apply(thr[t].op, thr[t].arg, @).s]
          /\ net' = net \cup Produced(thr[t].op, r)
          /\ thr' = [thr EXCEPT ![t].res = r.res, ![t].val = r.val,
                                ![t].pc = IF thr[t].op = "write_to_storage"
                                          THEN "slock" ELSE "unlock"]
    /\ UNCHANGED <<poisoned, kpStore, last, ops, holder, sholder, storage, mock, writes>>

\* a variant in which the storage lock is granted whoever holds it
StorageFree_always == TRUE

\* Mutex::lock on the storage backend returns once no thread holds the lock
StorageFree == sholder = None

\* the storage backend's lock (group_state.rs:243-245, lib.rs:323-325)
StorageLock(t) ==
    /\ At(t, "slock") /\ StorageFree
    /\ sholder' = Some(t)
    /\ Goto(t, "swrite")
    /\ UNCHANGED <<grp, poisoned, kpStore, net, last, ops, holder, storage, seqGrp, mock, writes>>

\* write() stores the group state under the lock and returns, dropping the
\* guard; the engine then deletes the key package the group was joined with
StorageWrite(t) ==
    /\ At(t, "swrite")
    /\ storage' = [storage EXCEPT ![ConcClient][thr[t].g] = grp[ConcClient][thr[t].g]]
    /\ kpStore' = [kpStore EXCEPT ![ConcClient] = @ \ SeqRange(thr[t].local[1].kpPending)]
    /\ writes' = [writes EXCEPT ![ConcClient] = StorageReceives([@ EXCEPT !.ok = @ + 1])]
    /\ sholder' = None
    /\ Goto(t, "unlock")
    /\ UNCHANGED <<grp, poisoned, net, last, ops, holder, seqGrp, mock>>

\* a variant in which the call returns with the guard still alive
Unlock_held(t) ==
    /\ At(t, "unlock")
    /\ poisoned' = [poisoned EXCEPT ![ConcClient][thr[t].g] = @ \/ thr[t].res = "panic"]
    /\ Ended(t, thr[t].res, thr[t].local)
    /\ thr' = [thr EXCEPT ![t] = IdleThread]
    /\ UNCHANGED <<grp, kpStore, net, ops, holder, sholder, storage, seqGrp, mock, writes>>

\* the call returns and the guard is dropped; a guard dropped while the thread
\* panics poisons the Mutex
Unlock(t) ==
    /\ At(t, "unlock")
    /\ holder' = [holder EXCEPT ![LockOf(thr[t].g)] = None]
    /\ poisoned' = [poisoned EXCEPT ![ConcClient][thr[t].g] = @ \/ thr[t].res = "panic"]
    /\ Ended(t, thr[t].res, thr[t].local)
    /\ thr' = [thr EXCEPT ![t] = IdleThread]
    /\ UNCHANGED <<grp, kpStore, net, ops, sholder, storage, seqGrp, mock, writes>>

ConcOps == {"commit", "propose_update", "clear_proposal_cache", "write_to_storage",
            "current_epoch"}

NextConc ==
    \/ \E t \in Threads, g \in Gids, op \in ConcOps : Begin(t, g, op, None)
    \/ \E t \in Threads, g \in Gids :
          \E m \in net \cup {NewMemberProposalMsg(G(ConcClient, g))} :
             Begin(t, g, "process_incoming_message", Some(m))
    \/ \E t \in Threads : Lock(t)
    \/ \E t \in Threads : Read(t)
    \/ \E t \in Threads : Write(t)
    \/ \E t \in Threads : StorageLock(t)
    \/ \E t \in Threads : StorageWrite(t)
    \/ \E t \in Threads : Unlock(t)

SpecConc == InitConc /\ [][NextConc]_vars

\* the read-only queries of a session (group.rs:347-367, 400-404)
QueryOps == {"members", "group_id", "current_epoch", "member_at_index"}

\* what a thread that is in a call can do next
ThreadStep(t) ==
    Lock(t) \/ Read(t) \/ Write(t) \/ StorageLock(t) \/ StorageWrite(t) \/ Unlock(t)

\* two threads make the queries on the two sessions, between calls that hold a
\* session lock for long (write_to_storage, which also takes the storage lock)
\* and a call that panics with the lock held (group.rs:322)
NextQueries ==
    \/ \E t \in Threads, g \in Gids, op \in QueryOps \cup {"write_to_storage"} :
          Begin(t, g, op, None)
    \/ \E t \in Threads, g \in Gids :
          Begin(t, g, "process_incoming_message",
                Some(NewMemberProposalMsg(G(ConcClient, g))))
    \/ \E t \in Threads : Lock(t)
    \/ \E t \in Threads : Read(t)
    \/ \E t \in Threads : Write(t)
    \/ \E t \in Threads : StorageLock(t)
    \/ \E t \in Threads : StorageWrite(t)
    \/ \E t \in Threads : Unlock(t)

\* the scheduler lets every thread that can go on do so in the end, and the
\* storage callback returns
SpecQueries ==
    InitConc /\ [][NextQueries]_vars /\ \A t \in Threads : WF_vars(ThreadStep(t))

\* ------------------------------------------------------------- group state storage
\* The storage of the tests, CustomGroupStateStorage (lib.rs:300-375): one
\* Mutex around a map from group id to MockGroupStateData {state, epoch_data}.
\* Two threads call state, epoch, write and max_epoch_id on it; every call
\* takes the lock first (lib.rs:319-321) and holds it until it returns.  One
\* group is written; the other stays unknown to the storage.
MaxStoreOps == 3
MaxInserts == 2
EpochIds == {5, 6}
WrittenGid == GeneratedGid
States == {"s1", "s2"}

\* EpochRecordFFI (group_state.rs:189-194)
EpochRecord(id, data) == [id |-> id, data |-> data]

\* groups.get(&group_id) with the empty default of entry().or_default()
Mock_get(gs, g) == IF gs[g] = None THEN [state |-> "", epoch_data |-> <<>>] ELSE gs[g][1]

\* lib.rs:324-327
Mock_state(gs, g) == IF gs[g] = None THEN None ELSE Some(gs[g][1].state)

\* lib.rs:329-339: the data of the first record with this id
Mock_epoch(gs, g, epoch_id) ==
    IF gs[g] = None THEN None
    ELSE LET ed == gs[g][1].epoch_data
             hits == {i \in 1..Len(ed) : ed[i].id = epoch_id}
         IN IF hits = {} THEN None
            ELSE Some(ed[CHOOSE i \in hits : \A j \in hits : i <= j].data)

\* lib.rs:368-374: the id of the last record
Mock_max_epoch_id(gs, g) ==
    IF gs[g] = None \/ gs[g][1].epoch_data = <<>> THEN None
    ELSE Some(gs[g][1].epoch_data[Len(gs[g][1].epoch_data)].id)

\* a variant that keeps the state a group already has
Mock_set_state_first(gs, g, group_state) ==
    IF gs[g] = None THEN [gs EXCEPT ![g] = Some([Mock_get(gs, g) EXCEPT !.state = group_state])]
    ELSE gs

\* lib.rs:351-352: entry(group_id).or_default(), then the state is replaced
Mock_set_state(gs, g, group_state) ==
    [gs EXCEPT ![g] = Some([Mock_get(gs, g) EXCEPT !.state = group_state])]

\* lib.rs:353-355: one turn of the loop over epoch_inserts
Mock_push(gs, g, insert) ==
    [gs EXCEPT ![g] = Some([@[1] EXCEPT !.epoch_data = Append(@, insert)])]

\* a variant that makes a record when none has the id
Mock_update_upsert(gs, g, update) ==
    LET ed == gs[g][1].epoch_data
        hits == {i \in 1..Len(ed) : ed[i].id = update.id}
    IN IF hits = {} THEN [gs EXCEPT ![g] = Some([@[1] EXCEPT !.epoch_data = Append(@, update)])]
       ELSE LET k == CHOOSE i \in hits : \A j \in hits : i <= j IN
            [gs EXCEPT ![g] = Some([@[1] EXCEPT !.epoch_data[k].data = update.data])]

\* a variant that leaves every record as it is
Mock_update_none(gs, g, update) == gs

\* lib.rs:357-364: one turn of the loop over epoch_updates: the first record
\* with the id gets the data, and nothing happens if there is none
Mock_update(gs, g, update) ==
    LET ed == gs[g][1].epoch_data
        hits == {i \in 1..Len(ed) : ed[i].id = update.id}
    IN IF hits = {} THEN gs
       ELSE LET k == CHOOSE i \in hits : \A j \in hits : i <= j IN
            [gs EXCEPT ![g] = Some([@[1] EXCEPT !.epoch_data[k].data = update.data])]

RECURSIVE Mock_push_all(_, _, _)
Mock_push_all(gs, g, inserts) ==
    IF inserts = <<>> THEN gs
    ELSE Mock_push_all(Mock_push(gs, g, Head(inserts)), g, Tail(inserts))

RECURSIVE Mock_update_all(_, _, _)
Mock_update_all(gs, g, updates) ==
    IF updates = <<>> THEN gs
    ELSE Mock_update_all(Mock_update(gs, g, Head(updates)), g, Tail(updates))

\* lib.rs:341-366: the whole of write
Mock_write(gs, g, group_state, epoch_inserts, epoch_updates) ==
    Mock_update_all(Mock_push_all(Mock_set_state(gs, g, group_state), g, epoch_inserts),
                    g, epoch_updates)

\* the ids of the records of group g
IdsOf(gs, g) == {r.id : r \in SeqRange(Mock_get(gs, g).epoch_data)}

\* the lists of records a caller inserts: up to MaxInserts records with ids
\* that differ from each other, in any order
InsertLists ==
    {<<>>} \cup
    UNION {{q \in [1..n -> {EpochRecord(i, "d") : i \in EpochIds}] :
              \A i, j \in 1..n : i # j => q[i].id # q[j].id} : n \in 1..MaxInserts}

\* the lists of records a caller updates: none, or one
UpdateLists == {<<>>} \cup {<<EpochRecord(i, "d2")>> : i \in EpochIds}

\* write(group_id, group_state, epoch_inserts, epoch_updates) as the contract
\* of the storage allows it to be called on group g: inserted ids are new to
\* the group, updated ids are known to it
WriteArgs(g) ==
    {a \in [state : States, inserts : InsertLists, updates : UpdateLists] :
       /\ \A i \in 1..Len(a.inserts) : a.inserts[i].id \notin IdsOf(written, g)
       /\ \A i \in 1..Len(a.updates) :
             a.updates[i].id \in IdsOf(written, g) \cup {r.id : r \in SeqRange(a.inserts)}}

InitStore ==
    /\ NoThreads
    /\ grp = [c \in Clients |-> [g \in Gids |-> None]]
    /\ poisoned = [c \in Clients |-> [g \in Gids |-> FALSE]]
    /\ kpStore = [c \in Clients |-> {}]
    /\ net = {}
    /\ last = NoCall
    /\ ops = MaxStoreOps

StoreFrame == UNCHANGED <<grp, poisoned, kpStore, net, holder, storage, seqGrp, writes>>

\* a thread calls the storage; the writes to one group come one after another,
\* from the session of that group (group.rs:108-111)
StoreBegin(t, g, op, arg) ==
    /\ At(t, "idle") /\ ops > 0
    /\ op = "write" => \A u \in Threads : ~(thr[u].op = "write" /\ thr[u].g = g)
    /\ ops' = ops - 1
    /\ thr' = [thr EXCEPT ![t] = [IdleThread EXCEPT !.pc = "enter", !.op = op,
                                                    !.g = g, !.arg = arg]]
    /\ StoreFrame /\ UNCHANGED <<last, sholder, mock, writes>>

\* self.lock(): lib.rs:319-321
StoreLock(t) ==
    /\ At(t, "enter") /\ StorageFree
    /\ sholder' = Some(t)
    /\ Goto(t, IF thr[t].op = "write" THEN "set_state" ELSE "query")
    /\ StoreFrame /\ UNCHANGED <<last, ops, mock, writes>>

\* where a write goes on when `ins` and `upd` are still to be done
WriteNext(ins, upd) ==
    IF ins # <<>> THEN "push" ELSE IF upd # <<>> THEN "update" ELSE "return"

\* lib.rs:351-352
StoreSetState(t) ==
    /\ At(t, "set_state")
    /\ groups' = Mock_set_state(groups, thr[t].g, thr[t].arg[1].state)
    /\ thr' = [thr EXCEPT ![t].local = Some([ins |-> thr[t].arg[1].inserts,
                                             upd |-> thr[t].arg[1].updates]),
                          ![t].pc = WriteNext(thr[t].arg[1].inserts, thr[t].arg[1].updates)]
    /\ StoreFrame /\ UNCHANGED <<last, ops, sholder, written>>

\* lib.rs:353-355
StorePush(t) ==
    /\ At(t, "push")
    /\ LET todo == thr[t].local[1] IN
       /\ groups' = Mock_push(groups, thr[t].g, Head(todo.ins))
       /\ thr' = [thr EXCEPT ![t].local = Some([todo EXCEPT !.ins = Tail(@)]),
                             ![t].pc = WriteNext(Tail(todo.ins), todo.upd)]
    /\ StoreFrame /\ UNCHANGED <<last, ops, sholder, written>>

\* lib.rs:357-364
StoreUpdate(t) ==
    /\ At(t, "update")
    /\ LET todo == thr[t].local[1] IN
       /\ groups' = Mock_update(groups, thr[t].g, Head(todo.upd))
       /\ thr' = [thr EXCEPT ![t].local = Some([todo EXCEPT !.upd = Tail(@)]),
                             ![t].pc = WriteNext(<<>>, Tail(todo.upd))]
    /\ StoreFrame /\ UNCHANGED <<last, ops, sholder, written>>

\* what state, epoch and max_epoch_id give on the map gs
Query(gs, op, g, arg) ==
    CASE op = "state" -> Mock_state(gs, g)
      [] op = "epoch" -> Mock_epoch(gs, g, arg[1])
      [] OTHER -> Mock_max_epoch_id(gs, g)

\* lib.rs:324-339 and 368-374: the call reads the map under the lock; `local`
\* keeps what the same call gives on the map as the last returned write left it
StoreQuery(t) ==
    /\ At(t, "query")
    /\ thr' = [thr EXCEPT ![t].val = Some(Query(groups, thr[t].op, thr[t].g, thr[t].arg)),
                          ![t].local = Some(Query(written, thr[t].op, thr[t].g, thr[t].arg)),
                          ![t].pc = "return"]
    /\ StoreFrame /\ UNCHANGED <<last, ops, sholder, mock, writes>>

\* the call returns Ok and the guard is dropped
StoreReturn(t) ==
    /\ At(t, "return")
    /\ sholder' = None
    /\ written' = IF thr[t].op = "write" THEN groups ELSE written
    /\ last' = [op |-> thr[t].op, c |-> ConcClient, g |-> thr[t].g, res |-> "ok",
                pre |-> Some(written), arg |-> thr[t].arg, val |-> thr[t].val]
    /\ thr' = [thr EXCEPT ![t] = IdleThread]
    /\ StoreFrame /\ UNCHANGED <<ops, groups>>

NextStore ==
    \/ \E t \in Threads : \E a \in WriteArgs(WrittenGid) :
          StoreBegin(t, WrittenGid, "write", Some(a))
    \/ \E t \in Threads, g \in Gids : StoreBegin(t, g, "state", None)
    \/ \E t \in Threads, i \in EpochIds : StoreBegin(t, WrittenGid, "epoch", Some(i))
    \/ \E t \in Threads, g \in Gids : StoreBegin(t, g, "max_epoch_id", None)
    \/ \E t \in Threads : StoreLock(t)
    \/ \E t \in Threads : StoreSetState(t)
    \/ \E t \in Threads : StorePush(t)
    \/ \E t \in Threads : StoreUpdate(t)
    \/ \E t \in Threads : StoreQuery(t)
    \/ \E t \in Threads : StoreReturn(t)

SpecStore == InitStore /\ [][NextStore]_vars

\* ------------------------------------------------------------- storage, any caller
\* The same storage called by one thread with whatever a caller can pass to
\* write (lib.rs:341-349), inside the contract or not: inserted ids that are
\* already stored or come twice, updated ids that are not stored.  Both groups
\* are written.
AnyWriteArgs(g) ==
    IF g = WrittenGid
    THEN [state : States,
          inserts : {<<>>, <<EpochRecord(5, "d")>>, <<EpochRecord(6, "d")>>,
                     <<EpochRecord(5, "d"), EpochRecord(6, "d")>>,
                     <<EpochRecord(5, "d"), EpochRecord(5, "e")>>},
          updates : {<<>>, <<EpochRecord(5, "d2")>>}]
    ELSE [state : {"s3"}, inserts : {<<>>, <<EpochRecord(5, "d")>>}, updates : {<<>>}]

\* write as one step: the lock is held from its first line to its last
StoreWriteCall(g, a) ==
    /\ ops > 0 /\ ops' = ops - 1
    /\ groups' = Mock_write(groups, g, a.state, a.inserts, a.updates)
    /\ written' = groups'
    /\ storage' = [storage EXCEPT ![ConcClient][g] = Some(a.state)]
    /\ last' = [op |-> "write", c |-> ConcClient, g |-> g, res |-> "ok",
                pre |-> Some(groups), arg |-> Some(a), val |-> None]
    /\ UNCHANGED <<grp, poisoned, kpStore, net, thr, holder, sholder, seqGrp, writes>>

\* state, epoch or max_epoch_id as one step
StoreReadCall(g, op, arg) ==
    /\ ops > 0 /\ ops' = ops - 1
    /\ last' = [op |-> op, c |-> ConcClient, g |-> g, res |-> "ok",
                pre |-> Some(groups), arg |-> arg, val |-> Some(Query(groups, op, g, arg))]
    /\ UNCHANGED <<grp, poisoned, kpStore, net, conc>>

NextStoreCalls ==
    \/ \E g \in Gids : \E a \in AnyWriteArgs(g) : StoreWriteCall(g, a)
    \/ \E g \in Gids : StoreReadCall(g, "state", None)
    \/ \E g \in Gids, i \in EpochIds : StoreReadCall(g, "epoch", Some(i))
    \/ \E g \in Gids : StoreReadCall(g, "max_epoch_id", None)

SpecStoreCalls == InitStore /\ [][NextStoreCalls]_vars

\* ------------------------------------------------------------- message envelope
\* MessageFFI (message.rs:15-92) wraps an MlsMessage.  Of a message the wrapper
\* looks at the wire format, at the content type and the authenticated data of a
\* private message, and at the bytes the message is encoded to.
ContentTypes == {1, 2, 3}
Envelope(wire, ctype, aad) == [wire |-> wire, ctype |-> ctype, aad |-> aad]

\* the wire format as the encoding writes it
WireCode(w) == IF w = "private" THEN 2 ELSE 1

\* a variant that writes the content type after the one the message has
MlsMessage_to_bytes_next(m) == <<1, WireCode(m.wire), (m.ctype % 3) + 1, Len(m.aad)>> \o m.aad

\* MlsMessage::to_bytes (called at message.rs:30): version, wire format, content
\* type, then the authenticated data behind its length
MlsMessage_to_bytes(m) == <<1, WireCode(m.wire), m.ctype, Len(m.aad)>> \o m.aad

\* a variant that takes every private message for an application message
MlsMessage_from_bytes_app(bytes) ==
    IF /\ Len(bytes) >= 4
       /\ bytes[1] = 1 /\ bytes[2] \in {1, 2} /\ bytes[3] \in ContentTypes
       /\ bytes[4] >= 0 /\ Len(bytes) >= 4 + bytes[4]
    THEN Some(Envelope(IF bytes[2] = 2 THEN "private" ELSE "public", 1,
                       SubSeq(bytes, 5, 4 + bytes[4])))
    ELSE None

\* MlsMessage::from_bytes (called at message.rs:25 and 77): None is Err; the
\* decoder reads one message from the front of the bytes
MlsMessage_from_bytes(bytes) ==
    IF /\ Len(bytes) >= 4
       /\ bytes[1] = 1 /\ bytes[2] \in {1, 2} /\ bytes[3] \in ContentTypes
       /\ bytes[4] >= 0 /\ Len(bytes) >= 4 + bytes[4]
    THEN Some(Envelope(IF bytes[2] = 2 THEN "private" ELSE "public", bytes[3],
                       SubSeq(bytes, 5, 4 + bytes[4])))
    ELSE None

\* MlsMessage::private_message (called at message.rs:47, 59, 80)
private_message(m) == IF m.wire = "private" THEN Some(m) ELSE None

\* message.rs:46-52
private_message_content_type(m) ==
    IF private_message(m) = None THEN None ELSE Some(private_message(m)[1].ctype)

\* a variant that reports an absent type as the application type
unwrap_or_app(o) == IF o = None THEN 1 ELSE o[1]

\* Option::unwrap_or(0), message.rs:84-85
unwrap_or_0(o) == IF o = None THEN 0 ELSE o[1]

\* what unchecked_auth_data returns: Ok(None), Ok(Some(message)) or an error
AuthOk(m) == [res |-> "ok", err |-> "", detail |-> <<>>, msg |-> m]
AuthErr(e, detail) == [res |-> "err", err |-> e, detail |-> detail, msg |-> None]

\* a variant that looks at the authenticated data before the outer type
unchecked_auth_data_inner_first(m, expected_outer_type, expected_inner_type) ==
    LET ciphertext_maybe == private_message(m) IN
    IF ciphertext_maybe = None THEN AuthErr("MlsError", <<>>)
    ELSE LET ciphertext == ciphertext_maybe[1] IN
         IF ciphertext.aad = <<>> THEN AuthOk(None)
         ELSE IF MlsMessage_from_bytes(ciphertext.aad) = None THEN AuthErr("MlsError", <<>>)
         ELSE IF ciphertext.ctype # expected_outer_type
              THEN AuthErr("UnexpectedMessageTypeDetailed",
                           <<expected_outer_type, ciphertext.ctype>>)
         ELSE AuthOk(MlsMessage_from_bytes(ciphertext.aad))

\* MessageFFI::unchecked_auth_data, message.rs:54-92
unchecked_auth_data(m, expected_outer_type, expected_inner_type) ==
    LET ciphertext_maybe == private_message(m) IN
    IF ciphertext_maybe = None THEN AuthErr("MlsError", <<>>)
    ELSE LET ciphertext == ciphertext_maybe[1] IN
         IF ciphertext.ctype # expected_outer_type
         THEN AuthErr("UnexpectedMessageTypeDetailed",
                      <<expected_outer_type, ciphertext.ctype>>)
         ELSE IF ciphertext.aad = <<>> THEN AuthOk(None)
         ELSE LET inner_message == MlsMessage_from_bytes(ciphertext.aad) IN
              IF inner_message = None THEN AuthErr("MlsError", <<>>)
              ELSE LET inner_content_type == private_message_content_type(inner_message[1]) IN
                   IF inner_content_type # expected_inner_type
                   THEN AuthErr("UnexpectedMessageTypeDetailed",
                                <<unwrap_or_0(expected_inner_type),
                                  unwrap_or_0(inner_content_type)>>)
                   ELSE AuthOk(Some(inner_message[1]))

\* the messages that go into the authenticated data of another message
InnerMessages == {Envelope(w, ct, <<>>) : w \in {"public", "private"}, ct \in ContentTypes}

\* the messages unchecked_auth_data is called on; their authenticated data is
\* empty, bytes that are no message, a message, or a message followed by one
\* more byte
OuterMessages ==
    LET AadInputs == {<<>>, <<9>>} \cup {MlsMessage_to_bytes(m) : m \in InnerMessages}
                         \cup {MlsMessage_to_bytes(m) \o <<7>> : m \in InnerMessages}
    IN {Envelope(w, ct, a) : w \in {"public", "private"}, ct \in ContentTypes, a \in AadInputs}

\* the bytes a caller can give to MessageFFI::new
BytesInputs ==
    {<<>>, <<9>>} \cup {MlsMessage_to_bytes(m) : m \in OuterMessages}
                  \cup {MlsMessage_to_bytes(m) \o <<7>> : m \in InnerMessages}

InitEnvelope ==
    /\ NoThreads
    /\ grp = [c \in Clients |-> [g \in Gids |-> None]]
    /\ poisoned = [c \in Clients |-> [g \in Gids |-> FALSE]]
    /\ kpStore = [c \in Clients |-> {}]
    /\ net = {}
    /\ last = NoCall
    /\ ops = 0

\* MessageFFI::unchecked_auth_data on a message
UncheckedAuthData(m, expected_outer_type, expected_inner_type) ==
    /\ last' = [op |-> "unchecked_auth_data", c |-> "A", g |-> 0,
                res |-> unchecked_auth_data(m, expected_outer_type, expected_inner_type).res,
                pre |-> None,
                arg |-> Some([m |-> m, outer |-> expected_outer_type,
                              inner |-> expected_inner_type]),
                val |-> Some(unchecked_auth_data(m, expected_outer_type, expected_inner_type))]
    /\ UNCHANGED <<grp, poisoned, kpStore, net, ops, conc>>

\* MessageFFI::new(bytes) and, on the message it gives, to_bytes, new on those
\* bytes and to_bytes again (message.rs:22-32)
NewThenToBytes(bytes) ==
    LET x == MlsMessage_from_bytes(bytes)
        b1 == MlsMessage_to_bytes(x[1])
        y == MlsMessage_from_bytes(b1)
    IN
    /\ last' = [op |-> "new", c |-> "A", g |-> 0,
                res |-> IF x = None THEN "err" ELSE "ok",
                pre |-> None, arg |-> Some(bytes),
                val |-> IF x = None THEN None
                        ELSE Some([x |-> x[1], bytes |-> b1, again |-> y,
                                   bytes_again |-> IF y = None THEN <<>>
                                                   ELSE MlsMessage_to_bytes(y[1])])]
    /\ UNCHANGED <<grp, poisoned, kpStore, net, ops, conc>>

NextEnvelope ==
    \/ \E m \in OuterMessages, eo \in {0} \cup ContentTypes,
          ei \in {None} \cup {Some(ty) : ty \in {0} \cup ContentTypes} :
          UncheckedAuthData(m, eo, ei)
    \/ \E bytes \in BytesInputs : NewThenToBytes(bytes)

SpecEnvelope == InitEnvelope /\ [][NextEnvelope]_vars

\* ------------------------------------------------------------- claims
Pre == last.pre[1]
Post == G(last.c, last.g)
Returned(op, res) == last.op = op /\ last.res = res
Own(s) == MemberSender(s.index)

\* C1: when A has created a group and added B with add_members, A is at epoch 1
\* once it has processed its own commit message, and B, once it has joined with
\* the Welcome of that commit, is at epoch 1 with member index 1 and has the
\* group id of A's group.
C1_SetupEpochs ==
    /\ ( /\ Returned("process_incoming_message", "ok")
         /\ Pre.epoch = 0 /\ Pre.pending = last.arg
         /\ Adds(last.arg[1].body) # <<>> )
       => current_epoch(Post) = 1
    /\ ( Returned("join_group", "ok") /\ Len(last.arg[1].tx) = 1 )
       => /\ current_epoch(Post) = 1
          /\ current_member_index(Post) = 1
          /\ \E a \in Creators :
                /\ Has(a, last.g)
                /\ group_id(G(a, last.g)) = group_id(Post)
                /\ group_id(Post) = last.arg[1].gid

C1_Witness ==
    /\ Returned("join_group", "ok")
    /\ grp["A"][GeneratedGid] = Some(SetupAlice)
    /\ grp["B"][GeneratedGid] = Some(SetupBob)
    /\ net = {KeyPackageMsg(SetupKp), SetupAdd.val[1].commit_message,
              SetupAdd.val[1].welcome_message[1]}

\* C2: a group returned by create_group, with or without a supplied group id, is
\* at epoch 0, the creator has member index 0, and the roster is the creator
\* alone at index 0.
C2_FreshGroup ==
    Returned("create_group", "ok") =>
        /\ current_epoch(Post) = 0
        /\ current_member_index(Post) = 0
        /\ members(Post) = <<[index |-> 0, signing_identity |-> SigningIdentity(last.c, 0)]>>
        /\ group_id(Post) = (IF last.arg[1] = None THEN GeneratedGid ELSE last.arg[1][1])

C2_Witness == Returned("create_group", "ok") /\ last.arg[1] = Some(SuppliedGid)

\* C3 as claimed: a successful commit() leaves current_epoch one higher than it
\* was before the call.
C3_CommitAdvancesEpoch ==
    Returned("commit", "ok") => current_epoch(Post) = current_epoch(Pre) + 1

\* C3 amended: a successful commit() leaves current_epoch unchanged and stages
\* the returned commit as the pending commit; current_epoch goes from e to e + 1
\* when the session processes that commit message.
C3_CommitStagedThenApplied ==
    /\ Returned("commit", "ok") =>
          /\ current_epoch(Post) = current_epoch(Pre)
          /\ Post.pending = Some(last.val[1].commit_message)
    /\ ( Returned("process_incoming_message", "ok") /\ Pre.pending = last.arg )
       => current_epoch(Post) = current_epoch(Pre) + 1

C3_Witness ==
    /\ Returned("process_incoming_message", "ok")
    /\ Pre.pending = last.arg
    /\ Adds(last.arg[1].body) = <<>>
    /\ current_epoch(Post) = 1

\* a Commit message the session can apply: its own pending commit, or the commit
\* of another member made on the session's group, epoch and transcript whose
\* referenced proposals the session has cached
ValidCommitFor(s, m) ==
    /\ m.kind = "commit"
    /\ \/ s.pending = Some(m)
       \/ /\ m.gid = s.gid /\ m.epoch = s.epoch /\ m.tx = s.tx
          /\ m.sender.index # s.index /\ m.sender.index < Len(s.roster)
          /\ SeqRange(m.body.by_ref) \subseteq SeqRange(s.cache)

C5_ErrorLeavesSession ==
    Returned("process_incoming_message", "err") =>
        /\ current_epoch(Post) = current_epoch(Pre)
        /\ Post.roster = Pre.roster
        /\ Post.cache = Pre.cache

\* C6 as claimed: processing a Proposal message whose sender is not a member
\* returns an error (no panic) and does not cache the proposal.
C6_NonMemberProposalIsError ==
    ( /\ last.op = "process_incoming_message"
      /\ last.arg[1].kind = "proposal"
      /\ last.arg[1].sender.kind # "member" )
    => last.res = "err" /\ Post.cache = Pre.cache

\* C10: encrypt_application_message with allow_self_proposals = false fails when
\* a proposal the caller authored is pending in its proposal cache; with
\* allow_self_proposals = true and only such proposals pending the call is not
\* refused (it fails only if the session lock was already poisoned).
C10_SelfProposals ==
    last.op = "encrypt_application_message" =>
        LET own == {i \in 1..Len(Pre.cache) : Pre.cache[i].sender = Own(Pre)} IN
        /\ (last.arg[1] = FALSE /\ own # {}) => last.res # "ok"
        /\ (last.arg[1] = TRUE /\ own = 1..Len(Pre.cache)) =>
              \/ last.res = "ok"
              \/ last.res = "panic" /\ poisoned[last.c][last.g]

C10_Witness ==
    /\ Returned("encrypt_application_message", "ok")
    /\ last.arg[1] = TRUE
    /\ Pre.cache # <<>>
    /\ \A i \in 1..Len(Pre.cache) : Pre.cache[i].sender = Own(Pre)

\* thread t is inside a call on session g: it holds, or is about to take, g's lock
InCall(t, g) == thr[t].pc # "idle" /\ thr[t].g = g
\* thread t is inside the state of session g: between inner() and the drop of the guard
InBody(t, g) == thr[t].pc \in {"read", "write", "slock", "swrite", "unlock"} /\ thr[t].g = g

\* C7 as claimed: once the calls on a session have returned, with a value or
\* with an error, the session's lock is free and not poisoned, so that the next
\* call on the session can take it.
C7_LockFreeAfterReturn ==
    \A g \in Gids :
        (\A t \in Threads : ~InCall(t, g))
            => holder[LockOf(g)] = None /\ ~poisoned[ConcClient][g]

\* C8: calls of several threads on one session exclude each other: at most one
\* thread is inside the session's state at a time, the lock is held by that
\* thread, and whenever no thread is inside, the session's epoch, roster and
\* proposal cache are those of the calls run one after another.
C8_Serialized ==
    \A g \in Gids :
        /\ \A t, u \in Threads : InBody(t, g) /\ InBody(u, g) => t = u
        /\ \A t \in Threads : InBody(t, g) => holder[LockOf(g)] = Some(t)
        /\ (\A t \in Threads : ~InBody(t, g))
              => /\ current_epoch(G(ConcClient, g)) = current_epoch(seqGrp[g])
                 /\ members(G(ConcClient, g)) = members(seqGrp[g])
                 /\ G(ConcClient, g).cache = seqGrp[g].cache

\* two threads are in state-changing calls on the same session at once: one is
\* inside, the other waits for the lock after an earlier call has already
\* changed the session
C8_Witness ==
    \E t, u \in Threads :
        /\ t # u /\ thr[t].g = thr[u].g
        /\ thr[t].pc = "lock" /\ thr[u].pc = "write"
        /\ thr[t].op = "propose_update" /\ thr[u].op = "commit"
        /\ holder[LockOf(thr[u].g)] = Some(u)
        /\ G(ConcClient, thr[u].g).cache # <<>>

\* thread t waits for a lock that thread u holds
WaitsForSession(t, u) ==
    t # u /\ thr[t].pc = "lock" /\ holder[LockOf(thr[t].g)] = Some(u)
WaitsForStorage(t, u) ==
    t # u /\ thr[t].pc = "slock" /\ sholder = Some(u)

\* C9 as claimed: a call on one session never waits for a lock held by a call on
\* a session with another group id, write_to_storage on the shared storage
\* backend included.
C9_NeverContend ==
    \A t, u \in Threads :
        WaitsForSession(t, u) \/ WaitsForStorage(t, u) => thr[t].g = thr[u].g

\* C9 amended: a call on one session never waits for the session lock of a
\* session with another group id; the only lock two sessions wait on each other
\* for is the storage backend's, and only between two write_to_storage calls.
C9_OnlyStorageContends ==
    \A t, u \in Threads :
        /\ WaitsForSession(t, u) => thr[t].g = thr[u].g /\ InBody(u, thr[t].g)
        /\ WaitsForStorage(t, u) =>
              thr[t].op = "write_to_storage" /\ thr[u].op = "write_to_storage"

\* both sessions are inside a call at once, each thread holding its own
\* session's lock, and one waits for the storage lock the other holds
C9_Witness ==
    \E t, u \in Threads :
        /\ thr[t].g # thr[u].g
        /\ holder[LockOf(thr[t].g)] = Some(t) /\ holder[LockOf(thr[u].g)] = Some(u)
        /\ WaitsForStorage(t, u)

\* the proposals carried by a sequence of proposal messages
ProposalsOf(msgs) == [i \in 1..Len(msgs) |-> msgs[i].body.proposal]

\* C11: a propose operation that succeeds leaves current_epoch unchanged and
\* adds its proposals to the end of the local proposal cache: one Add per key
\* package for propose_add_members, the Update for propose_update, the PSK
\* proposal for propose_external_psk, each the proposal of a returned message.
C11_ProposeCaches ==
    /\ Returned("propose_add_members", "ok") =>
          /\ current_epoch(Post) = current_epoch(Pre)
          /\ Len(last.val[1]) = Len(last.arg[1])
          /\ Post.cache = Pre.cache \o ProposalsOf(last.val[1])
          /\ \A i \in 1..Len(last.arg[1]) :
                last.val[1][i].body.proposal = AddProposal(Own(Pre), last.arg[1][i].body)
    /\ Returned("propose_update", "ok") =>
          /\ current_epoch(Post) = current_epoch(Pre)
          /\ Post.cache = Append(Pre.cache, last.val[1].body.proposal)
          /\ last.val[1].body.proposal.ptype = "update"
    /\ Returned("propose_external_psk", "ok") =>
          /\ current_epoch(Post) = current_epoch(Pre)
          /\ Post.cache = Append(Pre.cache, last.val[1].body.proposal)
          /\ last.val[1].body.proposal.ptype = "psk"

C11_Witness ==
    /\ Returned("propose_external_psk", "ok")
    /\ \E i \in 1..Len(Pre.cache) : Pre.cache[i].ptype = "add"
    /\ \E i \in 1..Len(Pre.cache) : Pre.cache[i].ptype = "update"
    /\ Len(Post.cache) = 3

\* C12: propose_update with a signer and no signing identity, or with a signing
\* identity and no signer, returns InconsistentOptionalParameters, gives back
\* no message, and leaves the proposal cache and the epoch as they were.
C12_InconsistentParameters ==
    ( /\ last.op = "propose_update"
      /\ ~poisoned[last.c][last.g]
      /\ (last.arg[1][1] = None) # (last.arg[1][2] = None) )
    => /\ last.res = "err"
       /\ last.val = Some("InconsistentOptionalParameters")
       /\ Post.cache = Pre.cache
       /\ current_epoch(Post) = current_epoch(Pre)

C12_Witness ==
    /\ Returned("propose_update", "err")
    /\ last.arg[1][1] # None /\ last.arg[1][2] = None
    /\ Pre.cache # <<>>

\* the proposals a commit output applies: those of its commit message
AppliedBy(out) == SeqRange(out.commit_message.body.by_ref \o out.commit_message.body.by_value)

\* C13: clear_proposal_cache() empties the proposal cache, a commit takes by
\* reference only proposals that are in the cache when it is called, and so in
\* every session a commit() made right after clear_proposal_cache() applies none
\* of the proposals that were cached, the session's own update proposal included.
C13_ClearedNotCommitted ==
    /\ Returned("clear_proposal_cache", "ok") => Post.cache = <<>>
    /\ Returned("commit", "ok") =>
          SeqRange(last.val[1].commit_message.body.by_ref) \subseteq SeqRange(Pre.cache)
    /\ \A c \in Clients, g \in Gids :
          Has(c, g) =>
             LET r == commit(clear_proposal_cache(G(c, g)).s) IN
             r.res = "ok" => AppliedBy(r.val[1]) \cap SeqRange(G(c, g).cache) = {}

\* a session has just proposed an update while it holds another member's update
\* proposal, which a commit would apply; the commit after a clear is possible
C13_Witness ==
    /\ Returned("propose_update", "ok")
    /\ commit(Post).res = "ok"
    /\ \E p \in AppliedBy(commit(Post).val[1]) : p.ptype = "update"
    /\ commit(clear_proposal_cache(Post).s).res = "ok"

CommitCalls == {"commit", "commit_new_identity", "add_members"}

\* C14 as claimed: when commit() has returned successfully the session's
\* proposal cache is empty.
C14_CacheEmptyAfterCommit ==
    Returned("commit", "ok") => Post.cache = <<>>

\* C14 amended: a successful commit leaves the proposal cache as it was and
\* stages the commit; while it is staged no further commit succeeds; the cache
\* is emptied when the session processes that commit message, so that what was
\* cached before the commit is not there for a later commit.
C14_CacheClearedWhenApplied ==
    /\ (last.op \in CommitCalls /\ last.res = "ok") =>
          Post.cache = Pre.cache /\ Post.pending # None
    /\ (last.op \in CommitCalls /\ Pre.pending # None) => last.res # "ok"
    /\ (Returned("process_incoming_message", "ok") /\ Pre.pending = last.arg) =>
          Post.cache = <<>> /\ Post.pending = None

C14_Witness ==
    /\ Returned("process_incoming_message", "ok")
    /\ Pre.pending = last.arg
    /\ Pre.cache # <<>>
    /\ Post.cache = <<>>

\* the epoch, roster and proposal cache of two group states are the same
SameSession(s1, s2) ==
    /\ current_epoch(s1) = current_epoch(s2)
    /\ members(s1) = members(s2)
    /\ s1.cache = s2.cache

\* the pairs of messages a caller can pass to add_members: key packages, and
\* Welcome messages, which are not key packages
TriedInputs == KeyPackageInputs \cup {m \in net : m.kind = "welcome"}
TriedLists == TriedInputs \X TriedInputs

\* C15: when commit, commit_new_identity or add_members returns an error, the
\* session's epoch, roster and proposal cache are what they were before the
\* call; this holds of the calls made and, in the session the last call has
\* left, of each of the three calls were it made next, add_members with two
\* messages included.
C15_FailedCommitLeavesSession ==
    /\ (last.op \in CommitCalls /\ last.res = "err") => SameSession(Post, Pre)
    /\ (last.g \in Gids /\ Has(last.c, last.g)) =>
          /\ commit(Post).res = "err" => SameSession(commit(Post).s, Post)
          /\ LET r == commit_new_identity(Post, "key", SigningIdentity(last.c, 1)) IN
             r.res = "err" => SameSession(r.s, Post)
          /\ \A kps \in TriedLists :
                LET r == add_members(Post, kps) IN
                r.res = "err" => SameSession(r.s, Post)

\* add_members has failed on a session that holds cached proposals, and it would
\* also fail there on the second of two messages
C15_Witness ==
    /\ Returned("add_members", "err")
    /\ Pre.cache # <<>>
    /\ \E kps \in TriedLists :
          /\ add_members(Post, <<kps[1]>>).res = "ok"
          /\ add_members(Post, kps).res = "err"

\* C16: when a member A encrypts m with authenticated data aad and
\* allow_self_proposals = false, every other member B whose session is on the
\* same group at the same epoch processes the message into an
\* ApplicationMessage whose data is m, whose authenticated data is aad and
\* whose sender is the signing identity A holds in the group; and every
\* application message a session did process came out with the data and the
\* authenticated data it carries.
C16_ApplicationRoundTrip ==
    /\ (Returned("process_incoming_message", "ok") /\ last.arg[1].kind = "application") =>
          /\ last.val[1].tag = "ApplicationMessage"
          /\ last.val[1].data = last.arg[1].body.data
          /\ last.val[1].authenticated_data = last.arg[1].body.aad
    /\ \A a \in Clients, g \in Gids, m \in Plaintexts, aad \in AuthData :
          (Has(a, g) /\ ~poisoned[a][g]) =>
             LET sa == G(a, g)
                 e  == encrypt_application_message(sa, m, aad, FALSE)
             IN  e.res = "ok" =>
                    \A b \in Clients \ {a} :
                       (/\ Has(b, g) /\ ~poisoned[b][g]
                        /\ G(b, g).epoch = sa.epoch /\ G(b, g).tx = sa.tx) =>
                          LET r == process_incoming_message(G(b, g), e.val[1]) IN
                          /\ r.res = "ok"
                          /\ r.val[1] = [tag |-> "ApplicationMessage",
                                         sender |-> sa.roster[sa.index + 1],
                                         data |-> m, authenticated_data |-> aad]

\* a member that is not at the first leaf has sent a message with authenticated
\* data and another member has processed it
C16_Witness ==
    /\ Returned("process_incoming_message", "ok")
    /\ last.arg[1].kind = "application"
    /\ last.arg[1].body.aad # <<>>
    /\ last.arg[1].sender.index > 0
    /\ last.val[1].sender.name # last.c

\* C17 as claimed: once join_group has succeeded, the key-package storage of
\* the joiner no longer holds the key package the Welcome was used with
\* (get(id) returns none), and a second join_group with a Welcome that needs
\* that key package does not succeed.
C17_KeyPackageConsumed ==
    Returned("join_group", "ok") =>
        /\ kpStore[last.c] \cap last.arg[1].body.kps = {}
        /\ ~EngineJoin(last.c, kpStore[last.c], last.arg[1]).ok

\* the calls that only read the storage
StoreReads == {"state", "epoch", "max_epoch_id"}
\* the greatest of a non-empty set of epoch ids
Highest(ids) == CHOOSE i \in ids : \A j \in ids : j <= i

\* C18: after a write that inserts one record {id, d} with an id above those
\* the group has (5 into a new group), and updates nothing, epoch(gid, id) is
\* Some(d) and max_epoch_id(gid) is id; after a write that inserts nothing and
\* updates {id, d2} for an id the group has, epoch(gid, id) is Some(d2) and
\* max_epoch_id(gid) is what it was (5 when 5 is the group's only record).
C18_WriteThenEpoch ==
    last.op = "write" =>
        LET a == last.arg[1]
            g == last.g
            before == last.pre[1]
        IN  /\ (/\ Len(a.inserts) = 1 /\ a.updates = <<>>
                /\ \A i \in IdsOf(before, g) : i < a.inserts[1].id) =>
                   /\ Mock_epoch(written, g, a.inserts[1].id) = Some(a.inserts[1].data)
                   /\ Mock_max_epoch_id(written, g) = Some(a.inserts[1].id)
            /\ (a.inserts = <<>> /\ Len(a.updates) = 1) =>
                   /\ Mock_epoch(written, g, a.updates[1].id) = Some(a.updates[1].data)
                   /\ Mock_max_epoch_id(written, g) = Mock_max_epoch_id(before, g)

\* the record 5 of a group that holds only this record, written with data d,
\* has been updated to d2 by a write without inserts
C18_Witness ==
    /\ last.op = "write"
    /\ last.arg[1].inserts = <<>>
    /\ last.arg[1].updates = <<EpochRecord(5, "d2")>>
    /\ Mock_get(last.pre[1], last.g).epoch_data = <<EpochRecord(5, "d")>>
    /\ Mock_epoch(written, last.g, 5) = Some("d2")
    /\ Mock_max_epoch_id(written, last.g) = Some(5)

\* C19 as claimed: after any sequence of writes max_epoch_id(group_id) is the
\* greatest of the epoch ids inserted for the group, in whatever order they were
\* inserted, and none for a group the storage does not know; this holds of the
\* storage between calls and of what max_epoch_id calls have returned.
C19_MaxEpochIdIsHighest ==
    /\ \A g \in Gids :
          Mock_max_epoch_id(written, g) =
             IF IdsOf(written, g) = {} THEN None ELSE Some(Highest(IdsOf(written, g)))
    /\ last.op = "max_epoch_id" =>
          last.val[1] = IF IdsOf(last.pre[1], last.g) = {} THEN None
                        ELSE Some(Highest(IdsOf(last.pre[1], last.g)))

\* C20: a write takes effect as a whole: when it returns, the storage holds the
\* new snapshot, every insert and every update of the call; and what a
\* concurrent state, epoch or max_epoch_id call reads is what the storage held
\* when the last write returned, never a write applied in part.
C20_WriteAtomic ==
    /\ last.op = "write" =>
          written = Mock_write(last.pre[1], last.g, last.arg[1].state,
                               last.arg[1].inserts, last.arg[1].updates)
    /\ \A t \in Threads :
          (At(t, "return") /\ thr[t].op \in StoreReads) => thr[t].val = thr[t].local
    /\ \A t \in Threads :
          (thr[t].pc \in {"push", "update"}) =>
             \A u \in Threads \ {t} : thr[u].pc \notin {"query", "return"}

\* a write is applied in part, with a record still to be pushed, while the other
\* thread has called state or epoch for the same group and waits for the lock
C20_Witness ==
    \E t, u \in Threads :
       /\ At(t, "push") /\ groups # written
       /\ At(u, "enter") /\ thr[u].op \in {"state", "epoch"} /\ thr[u].g = thr[t].g

\* C21 as claimed: the number of write calls the group state storage of a
\* client has received equals the number of write_to_storage calls of the
\* client's sessions that returned Ok.
C21_WritesEqualSuccesses ==
    \A c \in Clients : writes[c].got = writes[c].ok

\* C21: every write call the group state storage of a client receives is made
\* by a write_to_storage call, which makes one and no more: the number of write
\* calls received is at least the number of write_to_storage calls that
\* returned Ok and at most the number of write_to_storage calls made, and
\* after a write_to_storage call that returned Ok the storage holds the session
\* as the call left it.
C21_WritesOnlyExplicit ==
    /\ \A c \in Clients : writes[c].ok <= writes[c].got /\ writes[c].got <= writes[c].calls
    /\ (last.op = "write_to_storage" /\ last.res = "ok") => storage[last.c][last.g] = Some(Post)

\* a storage has received more writes than write_to_storage calls returned Ok,
\* and a commit and another call have been made since without a write
C21_Witness ==
    /\ \E c \in Clients : writes[c].ok = 1 /\ writes[c].got = 2
    /\ last.op = "commit" /\ last.res = "ok"

\* the group id, epoch and member index of two sessions are the same
SameIdentity(s1, s2) ==
    /\ group_id(s1) = group_id(s2)
    /\ current_epoch(s1) = current_epoch(s2)
    /\ current_member_index(s1) = current_member_index(s2)

C23_OuterMismatch ==
    (/\ last.op = "unchecked_auth_data"
     /\ last.arg[1].m.wire = "private"
     /\ last.arg[1].inner # None
     /\ last.arg[1].m.ctype # last.arg[1].outer) =>
        /\ last.res = "err"
        /\ last.val[1].err = "UnexpectedMessageTypeDetailed"
        /\ last.val[1].detail = <<last.arg[1].outer, last.arg[1].m.ctype>>

\* the outer type is not the expected one and the authenticated data holds a
\* message of the expected inner type
C23_Witness ==
    /\ last.op = "unchecked_auth_data"
    /\ last.arg[1].m.wire = "private"
    /\ last.arg[1].m.ctype # last.arg[1].outer
    /\ last.arg[1].m.aad # <<>>
    /\ MlsMessage_from_bytes(last.arg[1].m.aad) # None
    /\ last.arg[1].inner # None
    /\ private_message_content_type(MlsMessage_from_bytes(last.arg[1].m.aad)[1])
          = last.arg[1].inner
    /\ last.res = "err"

\* the message the authenticated data of the last call's message begins with,
\* read off the inputs: None when the bytes hold no message
NestedOf(aad) ==
    IF \E m \in InnerMessages : aad \in {MlsMessage_to_bytes(m), MlsMessage_to_bytes(m) \o <<7>>}
    THEN Some(CHOOSE m \in InnerMessages :
                 aad \in {MlsMessage_to_bytes(m), MlsMessage_to_bytes(m) \o <<7>>})
    ELSE None

\* the content type of a nested message: that of a private message, else absent
NestedType(m) == IF m.wire = "private" THEN Some(m.ctype) ELSE None

\* the outer message of the last call is private, of the expected outer type,
\* and its authenticated data is not empty and holds a message
NestedCase ==
    /\ last.op = "unchecked_auth_data"
    /\ last.arg[1].m.wire = "private"
    /\ last.arg[1].m.ctype = last.arg[1].outer
    /\ last.arg[1].m.aad # <<>>
    /\ NestedOf(last.arg[1].m.aad) # None

C24_WitnessPublic ==
    /\ NestedCase
    /\ last.arg[1].inner = Some(2)
    /\ NestedOf(last.arg[1].m.aad)[1].wire = "public"
    /\ last.val[1].detail = <<2, 0>>

C29_WitnessTrailing ==
    /\ last.op = "new" /\ last.res = "ok"
    /\ last.arg # Some(last.val[1].bytes)

\* C26: the CommitOutput a commit call returns holds a welcome message if and
\* only if the commit adds at least one member: the roster the commit leads to
\* has more members than the roster it was built on.
C26_WelcomeIffAdded ==
    (last.op \in CommitCalls /\ last.res = "ok") =>
        ((last.val[1].welcome_message # None) <=>
            Len(RosterAfter(Pre.roster, Pre.index, last.val[1].commit_message.body))
               > Len(Pre.roster))

\* commit() took an add proposal from the cache and returned a welcome message
C26_Witness ==
    /\ Returned("commit", "ok")
    /\ last.val[1].welcome_message # None
    /\ \E i \in 1..Len(Pre.cache) : Pre.cache[i].ptype = "add"

\* a commit that adds nobody returned no welcome message
C26_WitnessNone ==
    /\ Returned("commit", "ok")
    /\ last.val[1].welcome_message = None

\* the last call was process_incoming_message on an application, proposal or
\* commit message that is for another group or for another epoch than the
\* session's current one
MismatchedMessage ==
    /\ last.op = "process_incoming_message"
    /\ last.arg[1].kind \in {"application", "proposal", "commit"}
    /\ last.arg[1].gid # Pre.gid \/ last.arg[1].epoch # Pre.epoch

\* C27: a message whose group_id is not the session's group_id, or whose epoch is
\* not the session's current epoch, is rejected by process_incoming_message with
\* an error, and the session is left as it was.
C27_MismatchRejected ==
    MismatchedMessage => last.res = "err" /\ Post = Pre

\* a message of an earlier epoch was given to a session, which refused it
C27_Refused ==
    /\ MismatchedMessage
    /\ last.arg[1].gid = Pre.gid
    /\ last.res = "err" /\ Post = Pre

\* on a session whose lock is not poisoned such a message is always refused
C27_RefusedUnlessPoisoned ==
    (MismatchedMessage /\ last.res # "panic") => last.res = "err" /\ Post = Pre

\* the sessions of the group of the last call that are in the epoch the session
\* of the last call is in: same epoch number, same commits applied
SameEpochSessions ==
    {c2 \in Clients : /\ Has(c2, last.g)
                      /\ ~poisoned[c2][last.g]
                      /\ G(c2, last.g).epoch = Post.epoch
                      /\ G(c2, last.g).tx = Post.tx}

C28_WitnessBoth ==
    /\ Returned("export_secret", "ok")
    /\ SameEpochSessions = Clients

\* the last call was made on a session: the calls that put a new session behind
\* a new handle (create_group, join_group, load_group) are not calls on one
HandleCalls == {"none", "create_group", "generate_key_package", "join_group", "load_group", "drop"}

\* C30: a call on a group session leaves current_epoch as it was or exactly one
\* higher, whatever the call is and however it ends; so over any sequence of
\* calls on the session current_epoch never decreases and changes by 1 only.
C30_EpochStepsByOne ==
    (last.op \notin HandleCalls /\ last.pre # None) =>
        \/ current_epoch(Post) = current_epoch(Pre)
        \/ current_epoch(Post) = current_epoch(Pre) + 1

\* the session that created the group has applied its second commit
C30_Witness ==
    /\ Returned("process_incoming_message", "ok")
    /\ current_epoch(Pre) = 1
    /\ current_epoch(Post) = 2

\* the ids of the records of group g, in the order of the records
IdSeq(gs, g) == [i \in 1..Len(Mock_get(gs, g).epoch_data) |-> Mock_get(gs, g).epoch_data[i].id]

\* C31: the epoch records the storage holds for one group have pairwise distinct
\* ids, whatever writes it has received: an insert of an id that is already
\* stored for the group does not make a second record with that id.
C31_DistinctIds ==
    \A g \in Gids : \A i, j \in 1..Len(IdSeq(groups, g)) :
        i # j => IdSeq(groups, g)[i] # IdSeq(groups, g)[j]

\* while every write inserts only ids that are new to the group and that differ
\* from each other, as the contract of the storage asks, the ids stay distinct
C31_DistinctInContract ==
    \A g \in Gids : \A i, j \in 1..Len(IdSeq(written, g)) :
        i # j => IdSeq(written, g)[i] # IdSeq(written, g)[j]

\* the records of the group of the last write when its inserts were done and
\* its updates were still to come, and the records when it returned
BeforeUpdates == Mock_get(last.pre[1], last.g).epoch_data \o last.arg[1].inserts
AfterUpdates == Mock_get(groups, last.g).epoch_data

\* C32: an epoch update of a write overwrites the data of one record whose id
\* is the update's and leaves the id of that record, the number of records and
\* every other record as they were; an update whose id is not stored for the
\* group makes no record and changes none.
C32_UpdateInPlace ==
    (last.op = "write" /\ last.arg[1].updates # <<>>) =>
        LET u == last.arg[1].updates[1] IN
        /\ Len(AfterUpdates) = Len(BeforeUpdates)
        /\ \A i \in 1..Len(BeforeUpdates) : AfterUpdates[i].id = BeforeUpdates[i].id
        /\ IF \A i \in 1..Len(BeforeUpdates) : BeforeUpdates[i].id # u.id
           THEN AfterUpdates = BeforeUpdates
           ELSE \E k \in 1..Len(BeforeUpdates) :
                   /\ BeforeUpdates[k].id = u.id
                   /\ AfterUpdates[k].data = u.data
                   /\ \A i \in 1..Len(BeforeUpdates) : i # k => AfterUpdates[i] = BeforeUpdates[i]

\* a write updates one of the two records that an earlier write has stored
C32_Witness ==
    /\ last.op = "write"
    /\ last.arg[1].inserts = <<>> /\ last.arg[1].updates # <<>>
    /\ Len(BeforeUpdates) = 2
    /\ BeforeUpdates[1].id # BeforeUpdates[2].id
    /\ AfterUpdates # BeforeUpdates

\* a write updates an id of which the group has no record
C32_WitnessUnknown ==
    /\ last.op = "write" /\ last.arg[1].updates # <<>>
    /\ BeforeUpdates # <<>>
    /\ \A i \in 1..Len(BeforeUpdates) : BeforeUpdates[i].id # last.arg[1].updates[1].id

\* C33: state(group_id) returns the full_state of the most recent write for the
\* group id, and none if the group was never written; a write for one group id
\* leaves the snapshot and the epoch records of every other group id as they
\* were.
C33_StatePerGroup ==
    /\ last.op = "state" => last.val[1] = storage[ConcClient][last.g]
    /\ last.op = "write" =>
          /\ Mock_state(groups, last.g) = Some(last.arg[1].state)
          /\ \A g2 \in Gids \ {last.g} : groups[g2] = last.pre[1][g2]

\* the state of a group is read after a write for it and a later write for the
\* other group
C33_Witness ==
    /\ last.op = "state" /\ last.g = WrittenGid
    /\ last.val[1] = Some("s2")
    /\ Mock_state(groups, SuppliedGid) = Some("s3")
    /\ ops = 0

\* a group that was never written is read while the other group is stored
C33_WitnessNone ==
    /\ last.op = "state" /\ last.val[1] = None
    /\ \E g \in Gids : groups[g] # None

\* a thread holds the lock of the session it is calling, took it once in this
\* call and is past inner(); a thread holds the storage lock only while it holds
\* the lock of its session
LockOrder ==
    /\ \A k \in Gids : \A t \in Threads :
          holder[k] = Some(t) =>
             /\ LockOf(thr[t].g) = k
             /\ thr[t].pc \in {"read", "write", "slock", "swrite", "unlock"}
    /\ \A t \in Threads :
          sholder = Some(t) => thr[t].pc = "swrite" /\ holder[LockOf(thr[t].g)] = Some(t)
    /\ \A t \in Threads : thr[t].pc = "slock" => holder[LockOf(thr[t].g)] = Some(t)

\* C34: no call on a session can deadlock: a call takes the session lock once
\* and takes the storage lock only while it holds the session lock, and under
\* fair scheduling every call of members, group_id, current_epoch or
\* member_at_index that a thread has begun comes to its end.
C34_QueriesEnd ==
    /\ []LockOrder
    /\ \A t \in Threads :
          (thr[t].pc # "idle" /\ thr[t].op \in QueryOps) ~> (thr[t].pc = "idle")

\* a query waits for the lock of its session, which a write_to_storage call
\* holds while that call waits for the storage lock held by a call on the other
\* session
C34_Witness ==
    \E t, u \in Threads :
        /\ thr[t].op \in QueryOps /\ thr[t].pc = "lock"
        /\ thr[u].op = "write_to_storage" /\ thr[u].pc \in {"slock", "swrite"}
        /\ thr[u].g = thr[t].g

\* whether the reported proposal f is the engine's proposal p with its own kind
\* and payload
ReportedAsItIs(p, f) ==
    CASE p.ptype = "add" -> f.tag = "Add" /\ f.kp = p.kp
      [] p.ptype = "update" -> f.tag = "Update" /\ f.new = p.ident /\ f.index = p.sender.index
      [] OTHER -> f.tag # "Remove"

\* C35: a proposal that process_incoming_message reports is reported with its
\* own kind and payload; a proposal that is no Remove (here an external-PSK
\* proposal) is never reported as Remove.
C35_OwnKind ==
    (Returned("process_incoming_message", "ok") /\ last.val[1].tag = "ReceivedProposal") =>
        ReportedAsItIs(last.arg[1].body.proposal, last.val[1].proposal)

\* the proposals of the cache `cache` that a commit with content `body` leaves
\* unused, in cache order
LeftUnused(cache, body) == SelectSeq(cache, LAMBDA p : p \notin SeqRange(body.by_ref))

\* the convertible proposals of ps, converted, in the order of ps
ConvertibleOf(ps) ==
    LET conv == SelectSeq(ps, LAMBDA p : ProposalFFI_try_from(p) # None)
    IN [i \in 1..Len(conv) |-> ProposalFFI_try_from(conv[i])[1]]

\* C36: a proposal that fails to convert is dropped without error: commit()
\* returns an error only where the engine refuses the commit (one is already
\* pending), and unused_proposals of a
\* CommitOutput and the two lists of a CommitEffect hold exactly the
\* convertible proposals, in their original order.
C36_DroppedSilently ==
    /\ (last.op \in CommitCalls /\ last.res = "ok") =>
          last.val[1].unused_proposals =
             ConvertibleOf(LeftUnused(Pre.cache, last.val[1].commit_message.body))
    /\ Returned("commit", "err") => Pre.pending # None
    /\ (Returned("process_incoming_message", "ok") /\ last.val[1].tag = "Commit") =>
          LET body == last.arg[1].body IN
          /\ last.val[1].effect.applied_proposals = ConvertibleOf(body.by_ref \o body.by_value)
          /\ last.val[1].effect.unused_proposals = ConvertibleOf(LeftUnused(Pre.cache, body))

\* a commit whose unused proposals hold one that does not convert, before one
\* that does
C36_Witness ==
    /\ last.op = "commit" /\ last.res = "ok"
    /\ LET u == LeftUnused(Pre.cache, last.val[1].commit_message.body) IN
          /\ Len(u) > 1
          /\ ProposalFFI_try_from(u[1]) = None
          /\ last.val[1].unused_proposals # <<>>

\* a processed commit whose effect lost an unused proposal
C36_WitnessEffect ==
    /\ Returned("process_incoming_message", "ok") /\ last.val[1].tag = "Commit"
    /\ Len(last.val[1].effect.unused_proposals) < Len(LeftUnused(Pre.cache, last.arg[1].body))

\* the proposals of a cache are told apart by their references: no proposal is
\* in ps twice
NoRepeats(ps) == \A i, j \in 1..Len(ps) : i # j => ps[i] # ps[j]

\* C37: for a commit that creates a new epoch, every proposal that was pending
\* in the cache is accounted for exactly once: the proposals the commit applies
\* and the reported unused proposals are together as many as the cache held,
\* in the CommitOutput of the call that builds the commit and in the
\* CommitEffect of the call that applies it.
C37_AccountedOnce ==
    /\ (last.op \in CommitCalls /\ last.res = "ok" /\ NoRepeats(Pre.cache)) =>
          Len(last.val[1].commit_message.body.by_ref) + Len(last.val[1].unused_proposals)
             = Len(Pre.cache)
    /\ (Returned("process_incoming_message", "ok") /\ last.val[1].tag = "Commit"
            /\ NoRepeats(Pre.cache)) =>
          Len(last.val[1].effect.applied_proposals) + Len(last.val[1].effect.unused_proposals)
             = Len(last.arg[1].body.by_value) + Len(Pre.cache)

\* C38: add_members with n >= 1 key packages returns exactly one welcome
\* message, which admits the owner of each of the n key packages, and it is the
\* only welcome message the engine produced for the commit.
C38_OneWelcomeForAll ==
    Returned("add_members", "ok") =>
        LET kps == last.arg[1]
            eng == EngineCommit(Pre, [i \in 1..Len(kps) |->
                                         AddProposal(MemberSender(Pre.index), kps[i].body)],
                                None).out[1].welcome_messages
        IN /\ last.val[1].welcome_message # None
           /\ eng = <<last.val[1].welcome_message[1]>>
           /\ \A i \in 1..Len(kps) :
                 LET j == EngineJoin(kps[i].body.owner.name, {kps[i].body},
                                     last.val[1].welcome_message[1])
                 IN j.ok /\ j.s[1].roster[j.s[1].index + 1] = kps[i].body.owner

\* add_members has added two members with one call
C38_Witness == Returned("add_members", "ok") /\ Len(last.arg[1]) = 2

\* the Add proposals for the key packages of a call, in input order
AddsOf(key_packages) ==
    [i \in 1..Len(key_packages) |-> AddProposal(MemberSender(Pre.index), key_packages[i].body)]

\* C39: propose_add_members is all-or-nothing: it returns n messages in input
\* order and has cached n proposals, or it returns an error and has left no
\* proposal of the call in the cache.
C39_AllOrNothing ==
    /\ Returned("propose_add_members", "ok") =>
          /\ Len(last.val[1]) = Len(last.arg[1])
          /\ \A i \in 1..Len(last.arg[1]) :
                last.val[1][i].body.proposal = AddsOf(last.arg[1])[i]
          /\ Post.cache = Pre.cache \o AddsOf(last.arg[1])
    /\ Returned("propose_add_members", "err") => Post.cache = Pre.cache

C40_WitnessOwn ==
    /\ Returned("process_incoming_message", "ok") /\ last.val[1].tag = "Commit"
    /\ last.arg[1].body.new_identity # None
    /\ last.arg[1].sender.index = Pre.index

====
